---- MODULE Spec2Model ----
(***************************************************************************)
(* Social-Sync video pipeline.                                             *)
(*                                                                         *)
(*  - SpecRender : CompositeVideoBuilder (src/core/composite_builder.py):  *)
(*                 the add_* calls, render() step by step, _cleanup().     *)
(*  - SpecAdjust : adjust_timestamps_for_cuts (src/core/video_analysis.py) *)
(*  - SpecOverlap: avoid_multimedia_overlaps (src/core/video_processing.py)*)
(*  - SpecOpt    : process_video of src/core/video_processing_optimized.py *)
(*  - SpecLegacy : process_video of src/core/video_processing.py           *)
(*                                                                         *)
(* Each specification drives its own group of variables and leaves the     *)
(* other groups at their idle values.                                      *)
(***************************************************************************)
EXTENDS Integers, Sequences, FiniteSets, TLC

VARIABLES
    \* ---- CompositeVideoBuilder ----
    bpc,               \* position of the builder: "idle" or the render step about to run
    silence_cuts,      \* number of queued SilenceCut segments (self.silence_cuts)
    zoom_keyframes,    \* number of queued ZoomKeyframes (self.zoom_keyframes)
    media_overlays,    \* number of queued MediaOverlays (self.media_overlays); an image
                       \* and a video overlay each open one media clip
    background_music,  \* "none" | "exists" | "missing" (self.background_music and its file)
    intro_clips,       \* handles of the queued intro clips (self.intro_clips)
    outro_clips,       \* handles of the queued outro clips (self.outro_clips)
    loaded_clips,      \* handles registered for cleanup (self._loaded_clips)
    base_clip,         \* handle of the source clip, 0 when never loaded (self.base_clip)
    openHandles,       \* clip handles that are open now
    nextHandle,        \* next fresh handle id; 1..nextHandle-1 were opened at some time
    clip,              \* the in-memory working clip of render(), as the list of its layers
    stepLog,           \* the steps run by render(), when it is the latest call: step, input, output
    encodes,           \* write_videofile calls made by that render()
    raisedIn,          \* places of that render() where an exception was raised
    result,            \* how that render() ended: "returned" | "raised"; "none" otherwise
    cleaned,           \* whether that render() has run _cleanup()
    \* ---- adjust_timestamps_for_cuts ----
    adj_cuts,          \* silence_cuts argument: kept segments [start, end], ascending
    adj_ts,            \* original_timestamps argument
    adjusted,          \* the returned list
    adjDone,           \* whether the call has returned
    \* ---- avoid_multimedia_overlaps (times in units of min_gap, 0.5 s) ----
    broll_suggestions, \* start_time of each B-roll suggestion, in list order
    image_suggestions, \* start_time of each image suggestion, in list order
    video_duration,
    broll_clip_duration,
    image_display_duration,
    resolved_intervals,\* the accepted intervals: index, start, end, type
    final_broll,       \* returned B-roll suggestions: input index and start_time
    final_images,      \* returned image suggestions: input index and start_time
    avoidDone,         \* whether the call has returned
    second_broll,      \* B-roll list returned by a second call on the returned lists
    second_images,     \* image list returned by that second call
    avoidAgainDone,    \* whether the second call has been made
    multimedia_overlays,\* the overlay clips create_comprehensive_multimedia_video composites
    multimediaDone,    \* whether create_comprehensive_multimedia_video has built them
    \* ---- process_video of video_processing_optimized.py ----
    opc,               \* the stage about to run, "setup" before and "done" after
    skip,              \* the skip_* arguments, and music_none for music_track == 'none'
    current_video_path,\* the working artifact, by the stage that wrote it ("input": the source)
    transcript_path,   \* "None" or "srt"
    total_steps,
    current_step,
    events,            \* the PROGRESS events printed so far
    stageLog,          \* the stages run so far: stage, outcome, artifact written
    videoTimeline,     \* time axis of the working artifact: "original" | "post_cut"
    transcriptTimeline,\* time axis of the transcript's timestamps, "none" without transcript
    transcriptUses,    \* the stages that consumed transcript timestamps: stage, video, transcript
    inputInPlace,      \* whether the input file is still at its original path
    finalWritten,      \* whether edited_videos/final_<stem>.mp4 exists
    optResult,         \* "running"; the return value "final_output_path" or "None"
    builderCalls,      \* the CompositeVideoBuilder methods process_video has called
    \* ---- process_video (video_processing.py) ----
    lpc,               \* position of the legacy pipeline: the stage about to run
    flags,             \* the skip_* / use_* arguments; transcription failure rewrites some
    legacy_video_path, \* current_video_path: "input" or the stage whose output it is
    srtFile,           \* transcript_path on disk: "absent" | "empty" | "stale" | "fresh"
    produced,          \* whether a transcription of this run has succeeded
    textBound,         \* whether the local transcript_text has been assigned
    assFor,            \* working artifact the highlighted .ass file was named after, "none"
    dependentsRun,     \* transcript-reading stages run so far: stage, file state, produced
    legacy_total_steps,
    step_counter,
    legacy_events,     \* the PROGRESS events printed so far
    legacyInputInPlace,\* whether the input file is still at its original path
    burnedFile,        \* the caption file handed to burn_subtitles_ffmpeg: "none" | "ass" | "srt"
    legacyResult,      \* "running"; "final_output_path" or "raised"
    \* ---- zoom_function of _apply_zoom_effect (composite_builder.py) ----
    zpc,               \* "idle" | "given" | "queued" | "done"
    keyframes,         \* the list handed to add_zoom_keyframes
    sorted_keyframes,  \* self.zoom_keyframes as add_zoom_keyframes stores it
    frame_t,           \* the time t of the frame zoom_function is called for
    zoomAt,            \* zoom_factor, center_x, center_y used for that frame (fractions)
    \* ---- correct_subtitles_with_gpt4o (video_processing.py) ----
    gpc,               \* "idle" | "given" | "done"
    api_key,           \* whether an OpenAI API key is available
    srt_before,        \* the segments of the transcript file before the call
    srt_file,          \* the segments of the transcript file
    gpt_returned,      \* the return value, "none" before the call
    \* ---- _apply_silence_cuts with the kept intervals themselves (composite_builder.py) ----
    cpc,               \* "idle" | "given" | "queued" | "cut" | "raised"
    source_duration,   \* duration of the base clip, seconds
    cuts_given,        \* the list handed to add_silence_cuts
    kept_cuts,         \* self.silence_cuts as add_silence_cuts stores it
    working_clip,      \* the clip after the step: the source intervals it plays, in order
    \* ---- overlays, music, intro and outro of render() with durations (composite_builder.py) ----
    mpc,               \* "idle" | "queued" | "overlays" | "music" | "intro" | "outro" | "built"
    post_cut_duration, \* duration of the clip handed to _apply_media_overlays, seconds
    overlay_list,      \* self.media_overlays: start_time and duration of each
    music_track,       \* duration of the queued music file, 0 when no music is queued
    intro_durations,   \* durations of self.intro_clips
    outro_durations,   \* durations of self.outro_clips
    composited,        \* the overlays CompositeVideoClip was built with
    comp_duration,     \* duration of the clip built so far
    music_span,        \* <<from, to>> the music occupies on the clip built so far, <<>> if none
    \* ---- main() loop of the uploader (youtube_uploader.py) ----
    upc,               \* "idle" | "parsed" | "loop" | "done" | "aborted"
    mode,              \* args.mode
    files_to_process,  \* the list of video files the loop runs over
    \* ---- analyze_silence_segments (video_analysis.py) ----
    sil_pc,            \* "idle" | "given" | "analyzed"
    audio_duration,    \* duration of the video handed to the analyzer, seconds
    audible,           \* the seconds of the video whose energy is at or above the threshold
    margin,            \* the margin argument, seconds
    silence_analysis,  \* the list analyze_silence_segments returned
    \* ---- remove_bad_takes (advanced_editing.py) ----
    bad_takes,         \* the detected bad takes: start_time, end_time
    take_duration,     \* duration of the video, seconds
    kept_segments,     \* the segments the written video is concatenated from
    takesDone,         \* whether remove_bad_takes has run
    \* ---- one builder used for several render() calls (composite_builder.py) ----
    queued_intros,     \* self.intro_clips: the handles of the intro clips
    queued_outros,     \* self.outro_clips: the handles of the outro clips
    tracked_clips,     \* self._loaded_clips: the handles _cleanup will close
    open_clips,        \* the handles that are open
    next_clip,         \* the handle the next opened clip gets
    renders,           \* one record per render() call: outcome, the closed clips it used
    \* ---- quota statistics of YouTubeCacheManager (cache_manager.py) ----
    quota_file,        \* the content of quota_usage.json of the channel
    quota_stats,       \* self._quota_stats of each manager instance, with whether it exists
    quota_recorded,    \* the sums of all updates recorded so far, by any instance
    \* ---- SRT timestamps (video_processing.py) ----
    time_seconds,      \* the time given to _format_time_srt, in ticks
    srt_time,          \* the timestamp written: the digits of its four fields
    srt_parsed,        \* what _parse_srt_time returns for it, in ticks; -1 before
    batch_log          \* one record per loop iteration: position, video, core outcome, result, reported

builderVars == <<bpc, silence_cuts, zoom_keyframes, media_overlays, background_music,
                 intro_clips, outro_clips, loaded_clips, base_clip, openHandles,
                 nextHandle, clip, stepLog, encodes, raisedIn, result, cleaned>>

adjustVars == <<adj_cuts, adj_ts, adjusted, adjDone>>

overlapVars == <<broll_suggestions, image_suggestions, video_duration, broll_clip_duration,
                 image_display_duration, resolved_intervals, final_broll, final_images,
                 avoidDone, second_broll, second_images, avoidAgainDone,
                 multimedia_overlays, multimediaDone>>

optVars == <<opc, skip, current_video_path, transcript_path, total_steps, current_step,
             events, stageLog, videoTimeline, transcriptTimeline, transcriptUses,
             inputInPlace, finalWritten, optResult, builderCalls>>

legacyVars == <<lpc, flags, legacy_video_path, srtFile, produced, textBound, assFor,
                dependentsRun, legacy_total_steps, step_counter, legacy_events,
                legacyInputInPlace, burnedFile, legacyResult>>

zoomVars == <<zpc, keyframes, sorted_keyframes, frame_t, zoomAt>>

gptVars == <<gpc, api_key, srt_before, srt_file, gpt_returned>>

cutVars == <<cpc, source_duration, cuts_given, kept_cuts, working_clip>>

batchVars == <<upc, mode, files_to_process, batch_log>>

silenceVars == <<sil_pc, audio_duration, audible, margin, silence_analysis>>

takeVars == <<bad_takes, take_duration, kept_segments, takesDone>>

lifeVars == <<queued_intros, queued_outros, tracked_clips, open_clips, next_clip,
              renders>>

quotaVars == <<quota_file, quota_stats, quota_recorded>>

srtVars == <<time_seconds, srt_time, srt_parsed>>

composeVars == <<mpc, post_cut_duration, overlay_list, music_track, intro_durations,
                 outro_durations, composited, comp_duration, music_span>>

vars == <<builderVars, adjustVars, overlapVars, optVars, legacyVars, zoomVars, gptVars, cutVars, composeVars, batchVars, silenceVars, takeVars, lifeVars, quotaVars, srtVars>>

\* the idle values a specification gives the groups it does not drive
BuilderIdle ==
    /\ bpc = "idle" /\ silence_cuts = 0 /\ zoom_keyframes = 0 /\ media_overlays = 0
    /\ background_music = "none" /\ intro_clips = <<>> /\ outro_clips = <<>>
    /\ loaded_clips = <<>> /\ base_clip = 0 /\ openHandles = {} /\ nextHandle = 1
    /\ clip = <<>> /\ stepLog = <<>> /\ encodes = 0 /\ raisedIn = {}
    /\ result = "none" /\ cleaned = FALSE

AdjustIdle == adj_cuts = <<>> /\ adj_ts = <<>> /\ adjusted = <<>> /\ adjDone = FALSE

OverlapIdle ==
    /\ broll_suggestions = <<>> /\ image_suggestions = <<>> /\ video_duration = 0
    /\ broll_clip_duration = 0 /\ image_display_duration = 0
    /\ resolved_intervals = <<>> /\ final_broll = <<>> /\ final_images = <<>>
    /\ avoidDone = FALSE /\ second_broll = <<>> /\ second_images = <<>>
    /\ avoidAgainDone = FALSE
    /\ multimedia_overlays = <<>>
    /\ multimediaDone = FALSE

Range(s) == {s[i] : i \in 1..Len(s)}

(***************************************************************************)
(* Bounds                                                                  *)
(***************************************************************************)
MaxCuts == 2
MaxOverlays == 2
MaxIntros == 1
MaxHandles == 5
MaxT == 6
MaxAdjCuts == 2
MaxTimestamps == 2
MaxSuggestions == 2
MaxStart == 3
MaxVideoDuration == 5
MaxClipDuration == 3
MaxKeyframes == 3
MaxKfTime == 3
MaxSegments == 2
MaxSegTime == 2
SourceLen == 3
MaxPieces == 2
MaxPostCut == 3
MaxQueued == 2
MaxVideos == 3
MaxAudio == 5
MaxBadTakes == 2
MaxTakeTime == 4
MaxRenders == 2
MaxClipsOpened == 4
MaxInstances == 2
MaxUpdates == 3
MaxSrtHours == 1
TicksPerMilli == 10

OptFlags == {"silence", "topic_card", "transcription", "gpt_correct", "subtitle_burn",
             "zoom", "broll", "image_generation", "background_music", "music_none"}

OptIdle ==
    /\ opc = "idle" /\ skip = [f \in OptFlags |-> TRUE] /\ current_video_path = "input"
    /\ transcript_path = "None" /\ total_steps = 0 /\ current_step = 0 /\ events = <<>>
    /\ stageLog = <<>> /\ videoTimeline = "original" /\ transcriptTimeline = "none"
    /\ transcriptUses = {} /\ inputInPlace = TRUE /\ finalWritten = FALSE
    /\ optResult = "running" /\ builderCalls = {}

ZoomIdle ==
    /\ zpc = "idle" /\ keyframes = <<>> /\ sorted_keyframes = <<>> /\ frame_t = 0
    /\ zoomAt = <<>>

GptIdle ==
    /\ gpc = "idle" /\ api_key = FALSE /\ srt_before = <<>> /\ srt_file = <<>>
    /\ gpt_returned = "none"

CutIdle ==
    /\ cpc = "idle" /\ source_duration = 0 /\ cuts_given = <<>> /\ kept_cuts = <<>>
    /\ working_clip = <<>>

ComposeIdle ==
    /\ mpc = "idle" /\ post_cut_duration = 0 /\ overlay_list = <<>> /\ music_track = 0
    /\ intro_durations = <<>> /\ outro_durations = <<>> /\ composited = <<>>
    /\ comp_duration = 0 /\ music_span = <<>>

SilenceIdle ==
    /\ sil_pc = "idle" /\ audio_duration = 0 /\ audible = {} /\ margin = 0
    /\ silence_analysis = <<>>

TakeIdle ==
    /\ bad_takes = <<>> /\ take_duration = 0 /\ kept_segments = <<>> /\ takesDone = FALSE

LifeIdle ==
    /\ queued_intros = <<>> /\ queued_outros = <<>>
    /\ tracked_clips = <<>> /\ open_clips = {} /\ next_clip = 1 /\ renders = <<>>

\* lines 122-132: the statistics of a channel without a quota file
FreshStats == [total_saved |-> 0, total_used |-> 0, cache_hits |-> 0]

QuotaIdle ==
    /\ quota_file = FreshStats
    /\ quota_stats = [i \in 1..MaxInstances |-> [constructed |-> FALSE, stats |-> FreshStats]]
    /\ quota_recorded = FreshStats

\* no timestamp written yet
NoSrtTime == [hours |-> <<>>, minutes |-> <<>>, seconds |-> <<>>, millisec |-> <<>>]

SrtIdle ==
    /\ time_seconds = 0
    /\ srt_time = NoSrtTime
    /\ srt_parsed = -1

BatchIdle ==
    /\ upc = "idle" /\ mode = "none" /\ files_to_process = <<>> /\ batch_log = <<>>

\* the boolean arguments of the legacy process_video that decide which stages run
TranscriptFlags == {"skip_transcription", "skip_bad_take_removal", "skip_gpt_correct",
                    "skip_ai_highlights", "skip_broll", "skip_image_generation",
                    "skip_subtitle_burn", "use_ai_word_highlighting"}
VideoOnlyFlags == {"skip_audio", "skip_silence", "skip_enhanced_auto_zoom",
                   "skip_topic_card", "skip_flash_logo", "skip_outro",
                   "skip_background_music", "skip_sound_effects", "skip_frame"}
LegacyFlags == TranscriptFlags \cup VideoOnlyFlags

LegacyIdle ==
    /\ lpc = "idle" /\ flags = [f \in LegacyFlags |-> TRUE] /\ legacy_video_path = "input"
    /\ srtFile = "absent" /\ produced = FALSE /\ textBound = FALSE /\ assFor = "none"
    /\ dependentsRun = {} /\ legacy_total_steps = 0 /\ step_counter = 0
    /\ legacy_events = <<>> /\ legacyInputInPlace = TRUE /\ burnedFile = "none"
    /\ legacyResult = "running"

\* ======================================================================
\* CompositeVideoBuilder
\* ======================================================================

\* render(): the order of the effect steps and the encode (lines 409-437)
RenderStepsZoomFirst == <<"zoom", "cuts", "overlays", "music", "intro", "outro", "encode">>
RenderStepsEncodeEarly == <<"cuts", "zoom", "overlays", "music", "encode", "intro", "outro">>
RenderSteps == <<"cuts", "zoom", "overlays", "music", "intro", "outro", "encode">>

StepIndex(s) == CHOOSE i \in 1..Len(RenderSteps) : RenderSteps[i] = s

\* the statement after step s: the next step, or the return
AfterStep(s) ==
    IF StepIndex(s) < Len(RenderSteps) THEN RenderSteps[StepIndex(s) + 1] ELSE "return"

\* _cleanup(): close every registered clip, then clear the registry
cleanup(loadedNow, openNow) ==
    [open |-> openNow \ Range(loadedNow), loaded |-> <<>>]

BuilderInit == BuilderIdle /\ AdjustIdle /\ OverlapIdle /\ OptIdle /\ LegacyIdle /\ ZoomIdle /\ GptIdle /\ CutIdle /\ ComposeIdle /\ BatchIdle /\ SilenceIdle /\ TakeIdle /\ LifeIdle /\ QuotaIdle /\ SrtIdle

\* the variables no builder call touches
outsideBuilder == <<adjustVars, overlapVars, optVars, legacyVars, zoomVars, gptVars, cutVars, composeVars, batchVars, silenceVars, takeVars, lifeVars, quotaVars, srtVars>>

\* what every add_* call leaves alone
AddFrame ==
    /\ bpc = "idle"
    /\ result' = "none"
    /\ stepLog' = <<>>
    /\ encodes' = 0
    /\ raisedIn' = {}
    /\ cleaned' = FALSE
    /\ UNCHANGED <<bpc, base_clip, clip>>
    /\ UNCHANGED outsideBuilder

add_silence_cuts ==
    /\ AddFrame
    /\ \E n \in 0..MaxCuts : silence_cuts' = n
    /\ UNCHANGED <<zoom_keyframes, media_overlays, background_music, intro_clips,
                   outro_clips, loaded_clips, openHandles, nextHandle>>

add_zoom_keyframes ==
    /\ AddFrame
    /\ \E n \in 0..1 : zoom_keyframes' = n
    /\ UNCHANGED <<silence_cuts, media_overlays, background_music, intro_clips,
                   outro_clips, loaded_clips, openHandles, nextHandle>>

add_media_overlays ==
    /\ AddFrame
    /\ \E n \in 0..MaxOverlays : media_overlays' = n
    /\ UNCHANGED <<silence_cuts, zoom_keyframes, background_music, intro_clips,
                   outro_clips, loaded_clips, openHandles, nextHandle>>

add_music ==
    /\ AddFrame
    /\ \E m \in {"exists", "missing"} : background_music' = m
    /\ UNCHANGED <<silence_cuts, zoom_keyframes, media_overlays, intro_clips,
                   outro_clips, loaded_clips, openHandles, nextHandle>>

\* add_intro: the clip is opened at queueing time and registered at once
add_intro ==
    /\ AddFrame
    /\ Len(intro_clips) < MaxIntros
    /\ nextHandle <= MaxHandles
    /\ intro_clips' = Append(intro_clips, nextHandle)
    /\ loaded_clips' = Append(loaded_clips, nextHandle)
    /\ openHandles' = openHandles \cup {nextHandle}
    /\ nextHandle' = nextHandle + 1
    /\ UNCHANGED <<silence_cuts, zoom_keyframes, media_overlays, background_music,
                   outro_clips>>

add_outro ==
    /\ AddFrame
    /\ Len(outro_clips) < MaxIntros
    /\ nextHandle <= MaxHandles
    /\ outro_clips' = Append(outro_clips, nextHandle)
    /\ loaded_clips' = Append(loaded_clips, nextHandle)
    /\ openHandles' = openHandles \cup {nextHandle}
    /\ nextHandle' = nextHandle + 1
    /\ UNCHANGED <<silence_cuts, zoom_keyframes, media_overlays, background_music,
                   intro_clips>>

\* the queues render() only reads
QueuesUnchanged ==
    /\ UNCHANGED <<silence_cuts, zoom_keyframes, media_overlays, background_music,
                   intro_clips, outro_clips>>
    /\ UNCHANGED outsideBuilder

\* An exception leaves the try block: the finally clause runs _cleanup(), then the
\* exception surfaces to the caller.
PropagateNoCleanup(loadedNow, openNow) ==
    /\ openHandles' = openNow
    /\ loaded_clips' = loadedNow
    /\ cleaned' = FALSE
    /\ result' = "raised"
    /\ bpc' = "idle"
    /\ clip' = <<>>
Propagate(loadedNow, openNow) ==
    /\ openHandles' = cleanup(loadedNow, openNow).open
    /\ loaded_clips' = cleanup(loadedNow, openNow).loaded
    /\ cleaned' = TRUE
    /\ result' = "raised"
    /\ bpc' = "idle"
    /\ clip' = <<>>

\* The step finished without an exception leaving it: go on with the next statement;
\* after the last one render() returns output_path through the finally clause.
Continue(step, out, loadedNow, openNow) ==
    IF AfterStep(step) = "return"
    THEN /\ openHandles' = cleanup(loadedNow, openNow).open
         /\ loaded_clips' = cleanup(loadedNow, openNow).loaded
         /\ cleaned' = TRUE
         /\ result' = "returned"
         /\ bpc' = "idle"
         /\ clip' = <<>>
    ELSE /\ openHandles' = openNow
         /\ loaded_clips' = loadedNow
         /\ clip' = out
         /\ bpc' = AfterStep(step)
         /\ cleaned' = FALSE
         /\ UNCHANGED result

Logged(step, out) == Append(stepLog, [step |-> step, input |-> clip, output |-> out])

\* the highest handle id a render() started now can come to open: the source clip,
\* one media clip per overlay, the music clip
HandlesNeeded ==
    nextHandle + media_overlays + (IF background_music = "exists" THEN 1 ELSE 0)

\* render(), lines 400-407: load the source clip and register it
RenderLoad ==
    /\ bpc = "idle"
    /\ HandlesNeeded <= MaxHandles
    /\ stepLog' = <<>>
    /\ encodes' = 0
    /\ QueuesUnchanged
    /\ \E oc \in {"ok", "raise"} :
         IF oc = "ok"
         THEN /\ base_clip' = nextHandle
              /\ nextHandle' = nextHandle + 1
              /\ loaded_clips' = Append(loaded_clips, nextHandle)
              /\ openHandles' = openHandles \cup {nextHandle}
              /\ clip' = <<"base">>
              /\ bpc' = RenderSteps[1]
              /\ raisedIn' = {}
              /\ result' = "none"
              /\ cleaned' = FALSE
         ELSE /\ raisedIn' = {"load"}
              /\ Propagate(loaded_clips, openHandles)
              /\ UNCHANGED <<base_clip, nextHandle>>

\* step 1, lines 409-411 and _apply_silence_cuts
ApplySilenceCuts ==
    /\ bpc = "cuts"
    /\ QueuesUnchanged
    /\ UNCHANGED <<base_clip, nextHandle, encodes>>
    /\ IF silence_cuts = 0
       THEN /\ Continue("cuts", clip, loaded_clips, openHandles)
            /\ UNCHANGED <<stepLog, raisedIn>>
       ELSE \E nOk \in 0..silence_cuts, concat \in {"ok", "raise"} :
              LET subFailed == IF nOk < silence_cuts THEN {"subclip"} ELSE {}
              IN  IF nOk = 0
                  THEN \* no valid subclip: the original clip is returned
                       /\ concat = "ok"
                       /\ stepLog' = Logged("cuts", clip)
                       /\ raisedIn' = raisedIn \cup subFailed
                       /\ Continue("cuts", clip, loaded_clips, openHandles)
                  ELSE IF concat = "ok"
                  THEN /\ stepLog' = Logged("cuts", Append(clip, "cuts"))
                       /\ raisedIn' = raisedIn \cup subFailed
                       /\ Continue("cuts", Append(clip, "cuts"), loaded_clips, openHandles)
                  ELSE /\ stepLog' = stepLog
                       /\ raisedIn' = raisedIn \cup subFailed \cup {"concat"}
                       /\ Propagate(loaded_clips, openHandles)

\* step 2, lines 413-415 and _apply_zoom_effect
ApplyZoomEffect ==
    /\ bpc = "zoom"
    /\ QueuesUnchanged
    /\ UNCHANGED <<base_clip, nextHandle, encodes>>
    /\ IF zoom_keyframes = 0
       THEN /\ Continue("zoom", clip, loaded_clips, openHandles)
            /\ UNCHANGED <<stepLog, raisedIn>>
       ELSE \E oc \in {"ok", "raise"} :
              IF oc = "ok"
              THEN /\ stepLog' = Logged("zoom", Append(clip, "zoom"))
                   /\ UNCHANGED raisedIn
                   /\ Continue("zoom", Append(clip, "zoom"), loaded_clips, openHandles)
              ELSE /\ stepLog' = stepLog
                   /\ raisedIn' = raisedIn \cup {"zoom"}
                   /\ Propagate(loaded_clips, openHandles)

OverlayOutcomes == {"ok", "open_fail", "late_fail"}

\* the overlays of 1..i whose media clip was opened under the outcomes oc
OpenedUpTo(oc, i) == Cardinality({j \in 1..i : oc[j] # "open_fail"})

\* handle of overlay i's media clip (for oc[i] # "open_fail")
OverlayHandle(oc, i) == nextHandle + OpenedUpTo(oc, i) - 1

\* _apply_media_overlays, lines 312-333: the loop's appends to self._loaded_clips.
\* The append is the last statement of the try body: it is reached only when every
\* call after the open (transition, resize, set_start) succeeded.
RECURSIVE RegisteredOverlays(_, _)
RegisteredOverlays(oc, i) ==
    IF i = 0 THEN <<>>
    ELSE IF oc[i] = "ok"
         THEN Append(RegisteredOverlays(oc, i - 1), OverlayHandle(oc, i))
         ELSE RegisteredOverlays(oc, i - 1)

\* step 3, lines 417-419 and _apply_media_overlays
ApplyMediaOverlays ==
    /\ bpc = "overlays"
    /\ QueuesUnchanged
    /\ UNCHANGED <<base_clip, encodes>>
    /\ IF media_overlays = 0
       THEN /\ Continue("overlays", clip, loaded_clips, openHandles)
            /\ UNCHANGED <<stepLog, raisedIn, nextHandle>>
       ELSE \E oc \in [1..media_overlays -> OverlayOutcomes], comp \in {"ok", "raise"} :
              LET n == media_overlays
                  opened == {OverlayHandle(oc, i) : i \in {j \in 1..n : oc[j] # "open_fail"}}
                  overlay_clips == RegisteredOverlays(oc, n)
                  loadedNow == loaded_clips \o overlay_clips
                  openNow == openHandles \cup opened
                  failed == IF \E i \in 1..n : oc[i] # "ok" THEN {"overlay_load"} ELSE {}
              IN  /\ nextHandle' = nextHandle + Cardinality(opened)
                  /\ IF overlay_clips = <<>>
                     THEN \* nothing to composite: the clip is returned as it came
                          /\ comp = "ok"
                          /\ stepLog' = Logged("overlays", clip)
                          /\ raisedIn' = raisedIn \cup failed
                          /\ Continue("overlays", clip, loadedNow, openNow)
                     ELSE IF comp = "ok"
                     THEN /\ stepLog' = Logged("overlays", Append(clip, "overlays"))
                          /\ raisedIn' = raisedIn \cup failed
                          /\ Continue("overlays", Append(clip, "overlays"), loadedNow, openNow)
                     ELSE /\ stepLog' = stepLog
                          /\ raisedIn' = raisedIn \cup failed \cup {"composite"}
                          /\ Propagate(loadedNow, openNow)

\* step 4, lines 421-423 and _apply_background_music: every exception after the
\* existence test is caught and logged, and the clip is returned without music
ApplyBackgroundMusic ==
    /\ bpc = "music"
    /\ QueuesUnchanged
    /\ UNCHANGED <<base_clip, encodes>>
    /\ IF background_music = "none"
       THEN /\ Continue("music", clip, loaded_clips, openHandles)
            /\ UNCHANGED <<stepLog, raisedIn, nextHandle>>
       ELSE IF background_music = "missing"
       THEN /\ stepLog' = Logged("music", clip)
            /\ Continue("music", clip, loaded_clips, openHandles)
            /\ UNCHANGED <<raisedIn, nextHandle>>
       ELSE \E oc \in {"ok", "open_fail", "late_fail"} :
              IF oc = "open_fail"
              THEN /\ stepLog' = Logged("music", clip)
                   /\ raisedIn' = raisedIn \cup {"music"}
                   /\ Continue("music", clip, loaded_clips, openHandles)
                   /\ UNCHANGED nextHandle
              ELSE LET out == IF oc = "ok" THEN Append(clip, "music") ELSE clip
                   IN  /\ stepLog' = Logged("music", out)
                       /\ raisedIn' = IF oc = "ok" THEN raisedIn ELSE raisedIn \cup {"music"}
                       /\ nextHandle' = nextHandle + 1
                       /\ Continue("music", out, Append(loaded_clips, nextHandle),
                                   openHandles \cup {nextHandle})

\* step 5, lines 425-427: prepend the intro clips
PrependIntro ==
    /\ bpc = "intro"
    /\ QueuesUnchanged
    /\ UNCHANGED <<base_clip, nextHandle, encodes>>
    /\ IF intro_clips = <<>>
       THEN /\ Continue("intro", clip, loaded_clips, openHandles)
            /\ UNCHANGED <<stepLog, raisedIn>>
       ELSE \E oc \in {"ok", "raise"} :
              IF oc = "ok"
              THEN /\ stepLog' = Logged("intro", <<"intro">> \o clip)
                   /\ UNCHANGED raisedIn
                   /\ Continue("intro", <<"intro">> \o clip, loaded_clips, openHandles)
              ELSE /\ stepLog' = stepLog
                   /\ raisedIn' = raisedIn \cup {"intro"}
                   /\ Propagate(loaded_clips, openHandles)

\* step 5 (second half), lines 429-431: append the outro clips
AppendOutro ==
    /\ bpc = "outro"
    /\ QueuesUnchanged
    /\ UNCHANGED <<base_clip, nextHandle, encodes>>
    /\ IF outro_clips = <<>>
       THEN /\ Continue("outro", clip, loaded_clips, openHandles)
            /\ UNCHANGED <<stepLog, raisedIn>>
       ELSE \E oc \in {"ok", "raise"} :
              IF oc = "ok"
              THEN /\ stepLog' = Logged("outro", Append(clip, "outro"))
                   /\ UNCHANGED raisedIn
                   /\ Continue("outro", Append(clip, "outro"), loaded_clips, openHandles)
              ELSE /\ stepLog' = stepLog
                   /\ raisedIn' = raisedIn \cup {"outro"}
                   /\ Propagate(loaded_clips, openHandles)

\* lines 433-448: clip.write_videofile(...), the only encode, then return output_path
Encode ==
    /\ bpc = "encode"
    /\ QueuesUnchanged
    /\ UNCHANGED <<base_clip, nextHandle>>
    /\ encodes' = encodes + 1
    /\ \E oc \in {"ok", "raise"} :
         IF oc = "ok"
         THEN /\ stepLog' = Logged("encode", clip)
              /\ UNCHANGED raisedIn
              /\ Continue("encode", clip, loaded_clips, openHandles)
         ELSE /\ stepLog' = stepLog
              /\ raisedIn' = raisedIn \cup {"encode"}
              /\ Propagate(loaded_clips, openHandles)

BuilderNext ==
    \/ add_silence_cuts
    \/ add_zoom_keyframes
    \/ add_media_overlays
    \/ add_music
    \/ add_intro
    \/ add_outro
    \/ RenderLoad
    \/ ApplySilenceCuts
    \/ ApplyZoomEffect
    \/ ApplyMediaOverlays
    \/ ApplyBackgroundMusic
    \/ PrependIntro
    \/ AppendOutro
    \/ Encode

SpecRender == BuilderInit /\ [][BuilderNext]_vars

\* ======================================================================
\* adjust_timestamps_for_cuts
\* ======================================================================

SeqsUpTo(S, n) == UNION {[1..k -> S] : k \in 0..n}

Intervals(lo, hi) == {[start |-> a, end |-> b] : a \in lo..hi, b \in lo..hi}

\* SilenceCut lists as the data model requires them: start < end, ascending,
\* non-overlapping, inside [0, MaxT]
KeptLists ==
    {cs \in SeqsUpTo(Intervals(0, MaxT), MaxAdjCuts) :
        /\ \A i \in 1..Len(cs) : cs[i].start < cs[i].end
        /\ \A i \in 1..(Len(cs) - 1) : cs[i].end <= cs[i + 1].start}

\* the example of spec section 8: kept [(0,10),(20,30)], timestamp 25
ExampleCuts == <<[start |-> 0, end |-> 10], [start |-> 20, end |-> 30]>>
ExampleTimestamps == <<25>>

\* lines 183-196: the inner loop over silence_cuts from index i on; the value is what
\* the loop adds to cumulative_time
CumulativeTimeWholeSegments(original_t, cuts, i) ==
    LET RECURSIVE Go(_)
        Go(k) ==
            IF k > Len(cuts) THEN 0
            ELSE IF cuts[k].start > original_t THEN 0
            ELSE (cuts[k].end - cuts[k].start) + Go(k + 1)
    IN  Go(i)
RECURSIVE CumulativeTime(_, _, _)
CumulativeTime(original_t, cuts, i) ==
    IF i > Len(cuts) THEN 0
    ELSE IF cuts[i].start > original_t THEN 0                       \* break
    ELSE IF cuts[i].end <= original_t
         THEN (cuts[i].end - cuts[i].start) + CumulativeTime(original_t, cuts, i + 1)
         ELSE original_t - cuts[i].start                            \* break

\* lines 181-204: one pass of the outer loop
AdjustOne(original_t, cuts) ==
    LET cumulative_time == CumulativeTime(original_t, cuts, 1)
        removed_before == original_t - cumulative_time
    IN  original_t - removed_before

adjust_timestamps_for_cuts(original_timestamps, cuts) ==
    [k \in 1..Len(original_timestamps) |-> AdjustOne(original_timestamps[k], cuts)]

AdjustInit ==
    /\ BuilderIdle
    /\ OverlapIdle
    /\ OptIdle
    /\ LegacyIdle
    /\ ZoomIdle
    /\ GptIdle
    /\ CutIdle
    /\ ComposeIdle
    /\ BatchIdle
    /\ SilenceIdle
    /\ TakeIdle
    /\ LifeIdle
    /\ QuotaIdle
    /\ SrtIdle
    /\ \/ /\ adj_cuts \in KeptLists
          /\ adj_ts \in SeqsUpTo(0..(MaxT + 1), MaxTimestamps)
       \/ /\ adj_cuts = ExampleCuts
          /\ adj_ts = ExampleTimestamps
    /\ adjusted = <<>>
    /\ adjDone = FALSE

AdjustCall ==
    /\ ~adjDone
    /\ adjusted' = adjust_timestamps_for_cuts(adj_ts, adj_cuts)
    /\ adjDone' = TRUE
    /\ UNCHANGED <<adj_cuts, adj_ts>>
    /\ UNCHANGED <<builderVars, overlapVars, optVars, legacyVars, zoomVars, gptVars, cutVars, composeVars, batchVars, silenceVars, takeVars, lifeVars, quotaVars, srtVars>>

AdjustNext == AdjustCall

SpecAdjust == AdjustInit /\ [][AdjustNext]_vars

\* ======================================================================
\* avoid_multimedia_overlaps
\* ======================================================================

\* line 2876: min_gap = 0.5 s, the unit of time of this part of the model
min_gap == 1

Min(a, b) == IF a < b THEN a ELSE b

\* lines 2845-2869: the intervals of one kind; a suggestion whose clipped duration is
\* not positive gets none
RECURSIVE BuildIntervals(_, _, _, _, _)
BuildIntervals(suggestions, clip_duration, vd, type, i) ==
    IF i > Len(suggestions) THEN <<>>
    ELSE LET start == suggestions[i]
             duration == Min(clip_duration, vd - start)
             rest == BuildIntervals(suggestions, clip_duration, vd, type, i + 1)
         IN  IF duration > 0
             THEN <<[index |-> i, start |-> start, end |-> start + duration,
                     type |-> type]>> \o rest
             ELSE rest

\* line 2872: sorted(..., key=start), a stable sort
RECURSIVE InsertByStart(_, _)
InsertByStart(sorted, x) ==
    IF sorted = <<>> THEN <<x>>
    ELSE IF Head(sorted).start <= x.start
         THEN <<Head(sorted)>> \o InsertByStart(Tail(sorted), x)
         ELSE <<x>> \o sorted

RECURSIVE SortByStart(_)
SortByStart(xs) ==
    IF xs = <<>> THEN <<>>
    ELSE InsertByStart(SortByStart(SubSeq(xs, 1, Len(xs) - 1)), xs[Len(xs)])

\* lines 2884-2885 and 2913-2914: the overlap test with the minimum gap
Conflicts(start, end, r) == start < r.end + min_gap /\ end + min_gap > r.start

\* lines 2882-2925: the loop over resolved_intervals from position j on, for one
\* candidate; the value is the candidate as the loop leaves it and conflict_found
RECURSIVE PlaceInterval(_, _, _, _, _)
PlaceInterval(interval, resolved, vd, j, conflict_found) ==
    IF j > Len(resolved)
    THEN [interval |-> interval, conflict_found |-> conflict_found]
    ELSE LET r == resolved[j]
             len == interval.end - interval.start
             after_start == r.end + min_gap
             after_end == after_start + len
             before_end == r.start - min_gap
             before_start == before_end - len
             creates_new_conflict ==
                 \E k \in 1..Len(resolved) :
                     /\ resolved[k] # r
                     /\ Conflicts(before_start, before_end, resolved[k])
         IN  IF ~Conflicts(interval.start, interval.end, r)
             THEN PlaceInterval(interval, resolved, vd, j + 1, conflict_found)
             ELSE IF after_end <= vd
             THEN \* option 1: moved after the conflicting interval, then break
                  [interval |-> [interval EXCEPT !.start = after_start, !.end = after_end],
                   conflict_found |-> FALSE]
             ELSE IF before_start >= 0 /\ ~creates_new_conflict
             THEN \* option 2: moved before the conflicting interval, then break
                  [interval |-> [interval EXCEPT !.start = before_start, !.end = before_end],
                   conflict_found |-> FALSE]
             ELSE PlaceInterval(interval, resolved, vd, j + 1, TRUE)

\* lines 2878-2932: the loop over all_intervals from position i on
RECURSIVE ResolveAll(_, _, _, _)
ResolveAll(all_intervals, resolved, vd, i) ==
    IF i > Len(all_intervals) THEN resolved
    ELSE LET placed == PlaceInterval(all_intervals[i], resolved, vd, 1, FALSE)
         IN  IF ~placed.conflict_found
             THEN ResolveAll(all_intervals, Append(resolved, placed.interval), vd, i + 1)
             ELSE ResolveAll(all_intervals, resolved, vd, i + 1)

\* lines 2935-2942: the returned list of one kind, in the order of acceptance; each
\* suggestion carries the start_time the loop has given it
\* the suggestion an interval carries (interval['suggestion']): the suggestion number
\* index of the list of its kind, with the start_time the loop has given it
SuggestionOf(interval) ==
    [kind |-> interval.type, index |-> interval.index, start_time |-> interval.start]

\* every accepted suggestion in both lists
SuggestionsOfAnyType(resolved, type) ==
    [k \in 1..Len(resolved) |-> SuggestionOf(resolved[k])]

RECURSIVE SuggestionsOfType(_, _)
SuggestionsOfType(resolved, type) ==
    IF resolved = <<>> THEN <<>>
    ELSE LET rest == SuggestionsOfType(Tail(resolved), type)
         IN  IF Head(resolved).type = type
             THEN <<SuggestionOf(Head(resolved))>> \o rest
             ELSE rest

\* the documented scenario: B-roll at 10 s, image at 11 s, 4 s each, a 60 s video
ExampleBroll == <<20>>
ExampleImages == <<22>>
ExampleVideoDuration == 120
ExampleClipDuration == 8

OverlapInit ==
    /\ BuilderIdle
    /\ AdjustIdle
    /\ OptIdle
    /\ LegacyIdle
    /\ ZoomIdle
    /\ GptIdle
    /\ CutIdle
    /\ ComposeIdle
    /\ BatchIdle
    /\ SilenceIdle
    /\ TakeIdle
    /\ LifeIdle
    /\ QuotaIdle
    /\ SrtIdle
    /\ \/ /\ broll_suggestions \in SeqsUpTo(0..MaxStart, MaxSuggestions)
          /\ image_suggestions \in SeqsUpTo(0..MaxStart, MaxSuggestions)
          /\ video_duration \in (MaxVideoDuration - 1)..MaxVideoDuration
          /\ broll_clip_duration \in (MaxClipDuration - 1)..MaxClipDuration
          /\ image_display_duration \in (MaxClipDuration - 1)..MaxClipDuration
       \/ /\ broll_suggestions = ExampleBroll
          /\ image_suggestions = ExampleImages
          /\ video_duration = ExampleVideoDuration
          /\ broll_clip_duration = ExampleClipDuration
          /\ image_display_duration = ExampleClipDuration
    /\ resolved_intervals = <<>>
    /\ final_broll = <<>>
    /\ final_images = <<>>
    /\ avoidDone = FALSE
    /\ second_broll = <<>>
    /\ second_images = <<>>
    /\ avoidAgainDone = FALSE
    /\ multimedia_overlays = <<>>
    /\ multimediaDone = FALSE

avoid_multimedia_overlaps ==
    /\ ~avoidDone
    /\ LET broll_intervals ==
               BuildIntervals(broll_suggestions, broll_clip_duration, video_duration, "broll", 1)
           image_intervals ==
               BuildIntervals(image_suggestions, image_display_duration, video_duration, "image", 1)
           all_intervals == SortByStart(broll_intervals \o image_intervals)
           resolved == ResolveAll(all_intervals, <<>>, video_duration, 1)
       IN  /\ resolved_intervals' = resolved
           /\ final_broll' = SuggestionsOfType(resolved, "broll")
           /\ final_images' = SuggestionsOfType(resolved, "image")
    /\ avoidDone' = TRUE
    /\ UNCHANGED <<broll_suggestions, image_suggestions, video_duration,
                   broll_clip_duration, image_display_duration, second_broll,
                   second_images, avoidAgainDone, multimedia_overlays, multimediaDone>>
    /\ UNCHANGED <<builderVars, adjustVars, optVars, legacyVars, zoomVars, gptVars, cutVars, composeVars, batchVars, silenceVars, takeVars, lifeVars, quotaVars, srtVars>>

\* the start_time values of a returned list, as the next call reads them (lines 2847, 2860)
StartTimes(suggestions) == [i \in 1..Len(suggestions) |-> suggestions[i].start_time]

\* a second call, on the lists the first call returned, with the same video duration
\* and clip durations
avoid_multimedia_overlaps_again ==
    /\ avoidDone
    /\ ~avoidAgainDone
    /\ LET broll_intervals ==
               BuildIntervals(StartTimes(final_broll), broll_clip_duration, video_duration,
                              "broll", 1)
           image_intervals ==
               BuildIntervals(StartTimes(final_images), image_display_duration,
                              video_duration, "image", 1)
           all_intervals == SortByStart(broll_intervals \o image_intervals)
           resolved == ResolveAll(all_intervals, <<>>, video_duration, 1)
       IN  /\ second_broll' = SuggestionsOfType(resolved, "broll")
           /\ second_images' = SuggestionsOfType(resolved, "image")
    /\ avoidAgainDone' = TRUE
    /\ UNCHANGED <<broll_suggestions, image_suggestions, video_duration,
                   broll_clip_duration, image_display_duration, resolved_intervals,
                   final_broll, final_images, avoidDone, multimedia_overlays,
                   multimediaDone>>
    /\ UNCHANGED <<builderVars, adjustVars, optVars, legacyVars, zoomVars, gptVars, cutVars, composeVars, batchVars, silenceVars, takeVars, lifeVars, quotaVars, srtVars>>

OverlapNext ==
    \/ avoid_multimedia_overlaps
    \/ avoid_multimedia_overlaps_again

SpecOverlap == OverlapInit /\ [][OverlapNext]_vars

\* ----------------------------------------------------------------------
\* create_comprehensive_multimedia_video: the plan, the overlap avoidance call
\* and the overlay clips
\* ----------------------------------------------------------------------

\* the suggestions of one kind as the analysis returned them, numbered
PlannedAsGiven(suggestions, kind) ==
    [i \in 1..Len(suggestions) |-> [kind |-> kind, index |-> i, start_time |-> suggestions[i]]]

\* lines 3068-3090 and 3103-3128: the clip of one suggestion that was downloaded
\* or generated: the configured duration, cut at the end of the video
OverlayClip(item, configured, vd) ==
    LET clip_duration == IF item.start_time + configured > vd
                         THEN vd - item.start_time ELSE configured
    IN  [kind |-> item.kind, index |-> item.index, start |-> item.start_time,
         end |-> item.start_time + clip_duration]

\* lines 3065-3150: the overlay clips of one kind, leaving out the suggestions
\* whose file could not be obtained or loaded and those of no positive duration
RECURSIVE OverlayClips(_, _, _, _)
OverlayClips(items, outcome, configured, vd) ==
    IF items = <<>> THEN <<>>
    ELSE LET rest == OverlayClips(Tail(items), Tail(outcome), configured, vd)
             oc == OverlayClip(Head(items), configured, vd)
         IN  IF Head(outcome) = "ok" /\ oc.end - oc.start > 0
             THEN <<oc>> \o rest ELSE rest

MultimediaInit ==
    /\ BuilderIdle
    /\ AdjustIdle
    /\ OptIdle
    /\ LegacyIdle
    /\ ZoomIdle
    /\ GptIdle
    /\ CutIdle
    /\ ComposeIdle
    /\ BatchIdle
    /\ SilenceIdle
    /\ TakeIdle
    /\ LifeIdle
    /\ QuotaIdle
    /\ SrtIdle
    /\ broll_suggestions \in SeqsUpTo(0..MaxStart, MaxSuggestions)
    /\ image_suggestions \in SeqsUpTo(0..MaxStart, MaxSuggestions)
    /\ video_duration = MaxVideoDuration
    /\ broll_clip_duration \in (MaxClipDuration - 1)..MaxClipDuration
    /\ image_display_duration = MaxClipDuration - 1
    /\ resolved_intervals = <<>>
    /\ final_broll = <<>>
    /\ final_images = <<>>
    /\ avoidDone = FALSE
    /\ second_broll = <<>>
    /\ second_images = <<>>
    /\ avoidAgainDone = FALSE
    /\ multimedia_overlays = <<>>
    /\ multimediaDone = FALSE

\* lines 3014-3150, from the plan to the list handed to CompositeVideoClip
create_comprehensive_multimedia_video ==
    /\ ~multimediaDone
    /\ \/ broll_suggestions # <<>>
       \/ image_suggestions # <<>>
    /\ LET both == broll_suggestions # <<>> /\ image_suggestions # <<>>
           broll_intervals ==
               BuildIntervals(broll_suggestions, broll_clip_duration, video_duration, "broll", 1)
           image_intervals ==
               BuildIntervals(image_suggestions, image_display_duration, video_duration, "image", 1)
           resolved == ResolveAll(SortByStart(broll_intervals \o image_intervals), <<>>,
                                  video_duration, 1)
           \* lines 3022-3031: overlap avoidance only when both kinds are planned
           plan_broll == IF both THEN SuggestionsOfType(resolved, "broll")
                         ELSE PlannedAsGiven(broll_suggestions, "broll")
           plan_images == IF both THEN SuggestionsOfType(resolved, "image")
                          ELSE PlannedAsGiven(image_suggestions, "image")
       IN  /\ resolved_intervals' = IF both THEN resolved ELSE <<>>
           /\ avoidDone' = both
           /\ final_broll' = plan_broll
           /\ final_images' = plan_images
           /\ \E broll_outcome \in [1..Len(plan_broll) -> {"ok", "fail"}],
                 image_outcome \in [1..Len(plan_images) -> {"ok", "fail"}] :
                multimedia_overlays' =
                    OverlayClips(plan_broll, broll_outcome, broll_clip_duration, video_duration)
                    \o OverlayClips(plan_images, image_outcome, image_display_duration,
                                    video_duration)
    /\ multimediaDone' = TRUE
    /\ UNCHANGED <<broll_suggestions, image_suggestions, video_duration,
                   broll_clip_duration, image_display_duration, second_broll,
                   second_images, avoidAgainDone>>
    /\ UNCHANGED <<builderVars, adjustVars, optVars, legacyVars, zoomVars, gptVars, cutVars, composeVars, batchVars, silenceVars, takeVars, lifeVars, quotaVars, srtVars>>

MultimediaNext == create_comprehensive_multimedia_video

SpecMultimedia == MultimediaInit /\ [][MultimediaNext]_vars

\* ======================================================================
\* process_video of video_processing_optimized.py
\* ======================================================================

\* how a stage's producer ends: it reports success, reports failure, or raises
StageOutcomes == {"ok", "fail", "raise"}

\* lines 151-165: the up-front count of analysis_steps
TotalStepsWithoutMusic(sk) ==
    (IF ~sk.silence THEN 1 ELSE 0) + (IF ~sk.topic_card THEN 1 ELSE 0)
    + (IF ~sk.transcription THEN 1 ELSE 0) + (IF ~sk.gpt_correct THEN 1 ELSE 0)
    + (IF ~sk.subtitle_burn THEN 1 ELSE 0) + (IF ~sk.zoom THEN 1 ELSE 0)
    + (IF ~sk.broll \/ ~sk.image_generation THEN 1 ELSE 0)
TotalSteps(sk) ==
    (IF ~sk.silence THEN 1 ELSE 0) + (IF ~sk.topic_card THEN 1 ELSE 0)
    + (IF ~sk.transcription THEN 1 ELSE 0) + (IF ~sk.gpt_correct THEN 1 ELSE 0)
    + (IF ~sk.subtitle_burn THEN 1 ELSE 0) + (IF ~sk.zoom THEN 1 ELSE 0)
    + (IF ~sk.broll \/ ~sk.image_generation THEN 1 ELSE 0)
    + (IF ~sk.background_music THEN 1 ELSE 0)

\* send_step_progress, lines 52-64
Percentage(current, total) == IF total > 0 THEN (current * 100) \div total ELSE 0

ProgressEvent(step, current, total) ==
    [step |-> step, current_step |-> current, total_steps |-> total,
     percentage |-> Percentage(current, total)]

\* send_step_progress(step, next_step(), total_steps, ...)
Emit(step) ==
    /\ current_step' = current_step + 1
    /\ events' = Append(events, ProgressEvent(step, current_step + 1, total_steps))

NoEmit == UNCHANGED <<current_step, events>>

\* what no stage of the pipeline touches
OptFrame ==
    /\ UNCHANGED <<skip, total_steps, builderCalls>>
    /\ UNCHANGED <<builderVars, adjustVars, overlapVars, legacyVars, zoomVars, gptVars, cutVars, composeVars, batchVars, silenceVars, takeVars, lifeVars, quotaVars, srtVars>>

\* line 224: the file handed to transcribe_video_whisper
TranscribedFile == "input"

\* the time axis of a file: the source is on the original one, the working artifact
\* on the one the stages so far have left it on
TimelineOf(file) == IF file = "input" THEN "original" ELSE videoTimeline

OptInit ==
    /\ BuilderIdle
    /\ AdjustIdle
    /\ OverlapIdle
    /\ LegacyIdle
    /\ ZoomIdle
    /\ GptIdle
    /\ CutIdle
    /\ ComposeIdle
    /\ BatchIdle
    /\ SilenceIdle
    /\ TakeIdle
    /\ LifeIdle
    /\ QuotaIdle
    /\ SrtIdle
    /\ opc = "setup"
    /\ skip \in [OptFlags -> BOOLEAN]
    /\ current_video_path = "input"
    /\ transcript_path = "None"
    /\ total_steps = 0
    /\ current_step = 0
    /\ events = <<>>
    /\ stageLog = <<>>
    /\ videoTimeline = "original"
    /\ transcriptTimeline = "none"
    /\ transcriptUses = {}
    /\ inputInPlace = TRUE
    /\ finalWritten = FALSE
    /\ optResult = "running"
    /\ builderCalls = {}

\* lines 142-181: directories, total_steps, current_step = 0, and the builder, which is
\* constructed and not referred to again
OptSetup ==
    /\ opc = "setup"
    /\ builderCalls' = {"__init__"}
    /\ total_steps' = TotalSteps(skip)
    /\ current_step' = 0
    /\ opc' = "silence"
    /\ UNCHANGED <<skip, current_video_path, transcript_path, events, stageLog,
                   videoTimeline, transcriptTimeline, transcriptUses, inputInPlace,
                   finalWritten, optResult>>
    /\ UNCHANGED <<builderVars, adjustVars, overlapVars, legacyVars, zoomVars, gptVars, cutVars, composeVars, batchVars, silenceVars, takeVars, lifeVars, quotaVars, srtVars>>

\* a stage that is not run: go on with the next one
OptSkipStage(nextpc) ==
    /\ opc' = nextpc
    /\ NoEmit
    /\ UNCHANGED <<current_video_path, transcript_path, stageLog, videoTimeline,
                   transcriptTimeline, transcriptUses, inputInPlace, finalWritten,
                   optResult>>

\* A stage that writes a new video file from the working artifact: on success the new
\* file becomes the working artifact, on a reported failure the working artifact stays,
\* an exception goes to the except clause of lines 356-360 (return None).
OptArtifactStage(stage, nextpc, artifact, timelineAfter, usesTranscript) ==
    \E oc \in StageOutcomes :
        /\ stageLog' = Append(stageLog, [stage |-> stage, outcome |-> oc,
                                         artifact |-> IF oc = "ok" THEN artifact ELSE "none"])
        /\ transcriptUses' =
               IF usesTranscript
               THEN transcriptUses \cup {[stage |-> stage, video |-> videoTimeline,
                                          transcript |-> transcriptTimeline]}
               ELSE transcriptUses
        /\ IF oc = "raise"
           THEN /\ optResult' = "None"
                /\ opc' = "done"
                /\ UNCHANGED <<current_video_path, videoTimeline>>
           ELSE /\ opc' = nextpc
                /\ current_video_path' = IF oc = "ok" THEN artifact ELSE current_video_path
                /\ videoTimeline' = IF oc = "ok" THEN timelineAfter ELSE videoTimeline
                /\ UNCHANGED optResult
        /\ UNCHANGED <<transcript_path, transcriptTimeline, inputInPlace, finalWritten>>

\* Step 1, lines 183-199
OptSilenceRemoval ==
    /\ opc = "silence"
    /\ OptFrame
    /\ IF skip.silence
       THEN OptSkipStage("topic_card")
       ELSE /\ Emit("Silence Removal")
            /\ OptArtifactStage("silence", "topic_card", "silence_cut", "post_cut", FALSE)

\* Step 2, lines 201-212
OptTopicCard ==
    /\ opc = "topic_card"
    /\ OptFrame
    /\ IF skip.topic_card
       THEN OptSkipStage("transcription")
       ELSE /\ Emit("Topic Card")
            /\ OptArtifactStage("topic_card", "transcription", "topic_card", videoTimeline, FALSE)

\* Step 3, lines 214-229
OptTranscription ==
    /\ opc = "transcription"
    /\ OptFrame
    /\ IF skip.transcription
       THEN OptSkipStage("gpt_correct")
       ELSE /\ Emit("Transcription")
            /\ \E oc \in StageOutcomes :
                 /\ stageLog' = Append(stageLog, [stage |-> "transcription", outcome |-> oc,
                                                  artifact |-> "none"])
                 /\ IF oc = "raise"
                    THEN /\ optResult' = "None"
                         /\ opc' = "done"
                         /\ UNCHANGED <<transcript_path, transcriptTimeline>>
                    ELSE /\ opc' = "gpt_correct"
                         /\ transcript_path' = IF oc = "ok" THEN "srt" ELSE "None"
                         /\ transcriptTimeline' =
                                IF oc = "ok" THEN TimelineOf(TranscribedFile) ELSE "none"
                         /\ UNCHANGED optResult
            /\ UNCHANGED <<current_video_path, videoTimeline, transcriptUses,
                           inputInPlace, finalWritten>>

\* Step 4, lines 231-247: the transcript text is corrected in place
OptGptCorrection ==
    /\ opc = "gpt_correct"
    /\ OptFrame
    /\ IF skip.gpt_correct \/ transcript_path = "None"
       THEN OptSkipStage("subtitle_burn")
       ELSE /\ Emit("GPT Correction")
            /\ \E oc \in StageOutcomes :
                 /\ stageLog' = Append(stageLog, [stage |-> "gpt_correct", outcome |-> oc,
                                                  artifact |-> "none"])
                 /\ IF oc = "raise"
                    THEN optResult' = "None" /\ opc' = "done"
                    ELSE opc' = "subtitle_burn" /\ UNCHANGED optResult
            /\ UNCHANGED <<current_video_path, transcript_path, videoTimeline,
                           transcriptTimeline, transcriptUses, inputInPlace, finalWritten>>

\* Step 5, lines 249-265
OptSubtitleBurning ==
    /\ opc = "subtitle_burn"
    /\ OptFrame
    /\ IF skip.subtitle_burn \/ transcript_path = "None"
       THEN OptSkipStage("zoom")
       ELSE /\ Emit("Subtitle Burning")
            /\ OptArtifactStage("subtitle_burn", "zoom", "subtitled", videoTimeline, TRUE)

\* Step 6, lines 267-288: transcript_path is passed for the pause timing
OptAutoZoom ==
    /\ opc = "zoom"
    /\ OptFrame
    /\ IF skip.zoom
       THEN OptSkipStage("multimedia")
       ELSE /\ Emit("Enhanced Auto Zoom")
            /\ OptArtifactStage("zoom", "multimedia", "zoom", videoTimeline,
                                transcript_path # "None")

\* Step 7, lines 290-315
OptMultimedia ==
    /\ opc = "multimedia"
    /\ OptFrame
    /\ IF (skip.broll /\ skip.image_generation) \/ transcript_path = "None"
       THEN OptSkipStage("music")
       ELSE /\ Emit("Multimedia Integration")
            /\ OptArtifactStage("multimedia", "music", "multimedia", videoTimeline, TRUE)

\* Step 8, lines 317-331
OptBackgroundMusic ==
    /\ opc = "music"
    /\ OptFrame
    /\ IF skip.background_music \/ skip.music_none
       THEN OptSkipStage("finalize")
       ELSE /\ Emit("Background Music")
            /\ OptArtifactStage("music", "finalize", "final_with_music", videoTimeline, FALSE)

\* lines 333-354: shutil.move of the working artifact to the final path, the
\* "Complete" event, then shutil.copy2 of the input file, which raises
\* FileNotFoundError (caught at line 356: return None) when the input is gone
OptFinalize ==
    /\ opc = "finalize"
    /\ OptFrame
    /\ finalWritten' = TRUE
    /\ inputInPlace' = (inputInPlace /\ current_video_path # "input")
    /\ events' = Append(events, ProgressEvent("Complete", total_steps, total_steps))
    /\ optResult' = IF inputInPlace' THEN "final_output_path" ELSE "None"
    /\ opc' = "done"
    /\ UNCHANGED <<current_video_path, transcript_path, current_step, stageLog,
                   videoTimeline, transcriptTimeline, transcriptUses>>

OptNext ==
    \/ OptSetup
    \/ OptSilenceRemoval
    \/ OptTopicCard
    \/ OptTranscription
    \/ OptGptCorrection
    \/ OptSubtitleBurning
    \/ OptAutoZoom
    \/ OptMultimedia
    \/ OptBackgroundMusic
    \/ OptFinalize

SpecOpt == OptInit /\ [][OptNext]_vars

\* ======================================================================
\* process_video of video_processing.py (the legacy pipeline)
\* ======================================================================

\* the argument combinations explored: the transcript-related flags vary freely, the
\* stages that only rewrite the video are enabled or skipped together
LegacyProfiles ==
    {[f \in LegacyFlags |-> IF f \in TranscriptFlags THEN t[f] ELSE v] :
        t \in [TranscriptFlags -> BOOLEAN], v \in BOOLEAN}

\* lines 1804-1821: the flags that add an entry to steps_to_execute
CountedFlags == LegacyFlags \ {"skip_image_generation", "use_ai_word_highlighting"}

\* line 1823: total_steps = len(steps_to_execute)
LegacyTotalSteps(f) == Cardinality({x \in CountedFlags : ~f[x]})

\* the stages in the order of lines 1836-2146
LegacyStages ==
    <<"audio", "silence", "transcription", "bad_take_removal", "gpt_correct",
      "topic_detection", "multimedia_analysis", "highlights", "multimedia", "zoom",
      "topic_card", "flash_logo", "outro", "music", "sound_effects", "subtitle_burn",
      "frame", "finalize">>

AfterStage(st) ==
    LET i == CHOOSE k \in 1..Len(LegacyStages) : LegacyStages[k] = st
    IN  IF i < Len(LegacyStages) THEN LegacyStages[i + 1] ELSE "done"

\* send_step_progress(step, get_step(), total_steps, ...), lines 115-127 and 1826-1829
LegacyEmit(step) ==
    /\ step_counter' = step_counter + 1
    /\ legacy_events' = Append(legacy_events,
                               ProgressEvent(step, step_counter + 1, legacy_total_steps))

LegacyNoEmit == UNCHANGED <<step_counter, legacy_events>>

\* the transcript-side state, which the stages that only rewrite the video leave alone
transcriptSide == <<flags, srtFile, produced, textBound, assFor, dependentsRun, burnedFile>>

LegacyFrame ==
    /\ UNCHANGED <<legacy_total_steps, legacyInputInPlace>>
    /\ UNCHANGED <<builderVars, adjustVars, overlapVars, optVars, zoomVars, gptVars, cutVars, composeVars, batchVars, silenceVars, takeVars, lifeVars, quotaVars, srtVars>>

\* a stage reads the transcript file
ReadsTranscript(st) ==
    dependentsRun' = dependentsRun \cup {[stage |-> st, file |-> srtFile, produced |-> produced]}

\* the stage at lpc is not run
LegacySkip ==
    /\ lpc' = AfterStage(lpc)
    /\ LegacyNoEmit
    /\ UNCHANGED <<legacy_video_path, legacyResult>>

\* The stage at lpc writes a new video from the working artifact.  On success the new
\* file becomes the working artifact, on a reported failure the stage logs a warning; an
\* exception leaves process_video through the try/finally of lines 1802-2150, which has
\* no except clause.
LegacyProduce(artifact, outcomes) ==
    \E oc \in outcomes :
        IF oc = "raise"
        THEN /\ lpc' = "done"
             /\ legacyResult' = "raised"
             /\ UNCHANGED legacy_video_path
        ELSE /\ lpc' = AfterStage(lpc)
             /\ legacy_video_path' = IF oc = "ok" THEN artifact ELSE legacy_video_path
             /\ UNCHANGED legacyResult

LegacyInit ==
    /\ BuilderIdle
    /\ AdjustIdle
    /\ OverlapIdle
    /\ OptIdle
    /\ ZoomIdle
    /\ GptIdle
    /\ CutIdle
    /\ ComposeIdle
    /\ BatchIdle
    /\ SilenceIdle
    /\ TakeIdle
    /\ LifeIdle
    /\ QuotaIdle
    /\ SrtIdle
    /\ lpc = "setup"
    /\ flags \in LegacyProfiles
    /\ legacy_video_path = "input"
    \* the temp directory is never emptied (line 2150), so a transcript of an earlier
    \* run on the same input may be there
    /\ srtFile \in {"absent", "stale"}
    /\ produced = FALSE
    /\ textBound = FALSE
    /\ assFor = "none"
    /\ dependentsRun = {}
    /\ legacy_total_steps = 0
    /\ step_counter = 0
    /\ legacy_events = <<>>
    /\ legacyInputInPlace = TRUE
    /\ burnedFile = "none"
    /\ legacyResult = "running"

\* lines 1796-1832
LegacySetup ==
    /\ lpc = "setup"
    /\ legacy_total_steps' = LegacyTotalSteps(flags)
    /\ step_counter' = 0
    /\ lpc' = "audio"
    /\ UNCHANGED <<legacy_video_path, legacy_events, legacyInputInPlace, legacyResult>>
    /\ UNCHANGED transcriptSide
    /\ UNCHANGED <<builderVars, adjustVars, overlapVars, optVars, zoomVars, gptVars, cutVars, composeVars, batchVars, silenceVars, takeVars, lifeVars, quotaVars, srtVars>>

\* Step 1, lines 1836-1853: the merge of the enhanced audio is not inside a try
LegacyAudio ==
    /\ lpc = "audio"
    /\ LegacyFrame
    /\ UNCHANGED transcriptSide
    /\ IF flags["skip_audio"]
       THEN LegacySkip
       ELSE LegacyEmit("Audio Enhancement") /\ LegacyProduce("audio_merged", {"ok", "fail", "raise"})

\* Step 2, lines 1855-1863
LegacySilence ==
    /\ lpc = "silence"
    /\ LegacyFrame
    /\ UNCHANGED transcriptSide
    /\ IF flags["skip_silence"]
       THEN LegacySkip
       ELSE LegacyEmit("Silence Removal") /\ LegacyProduce("silence_cut", {"ok", "fail", "raise"})

\* what transcribe_video_whisper (lines 361-381) leaves on disk: the file is opened
\* with "w" after model.transcribe, so a failure leaves it untouched or truncated
SrtAfterTranscribe(oc) ==
    CASE oc = "ok" -> "fresh"
      [] oc = "fail_before_open" -> srtFile
      [] oc = "fail_writing" -> "empty"

\* Step 3, lines 1865-1874
LegacyTranscription ==
    /\ lpc = "transcription"
    /\ LegacyFrame
    /\ lpc' = AfterStage(lpc)
    /\ UNCHANGED <<legacy_video_path, legacyResult, textBound, assFor, dependentsRun,
                   burnedFile>>
    /\ IF ~flags["skip_transcription"]
       THEN /\ LegacyEmit("Transcription")
            /\ \E oc \in {"ok", "fail_before_open", "fail_writing"} :
                 /\ srtFile' = SrtAfterTranscribe(oc)
                 /\ produced' = (oc = "ok")
                 /\ flags' = IF oc = "ok" THEN flags
                             ELSE [flags EXCEPT !["skip_gpt_correct"] = TRUE,
                                                !["skip_subtitle_burn"] = TRUE,
                                                !["skip_ai_highlights"] = TRUE,
                                                !["skip_broll"] = TRUE]
       ELSE \* transcript_path.touch(): "a dummy transcript file ... for subsequent steps"
            /\ LegacyNoEmit
            /\ srtFile' = IF srtFile = "absent" THEN "empty" ELSE srtFile
            /\ UNCHANGED <<produced, flags>>

\* Step 3.5, lines 1876-1904: on removal the edited video is transcribed again into
\* the same transcript_path
LegacyBadTakeRemoval ==
    /\ lpc = "bad_take_removal"
    /\ LegacyFrame
    /\ UNCHANGED <<flags, textBound, assFor, burnedFile>>
    /\ IF ~flags["skip_bad_take_removal"] /\ srtFile \in {"stale", "fresh"}
       THEN /\ LegacyEmit("Bad Take Removal")
            /\ ReadsTranscript("bad_take_removal")
            /\ \E oc \in {"none", "removed", "raise"} :
                 CASE oc = "none" ->
                        /\ lpc' = AfterStage(lpc)
                        /\ UNCHANGED <<legacy_video_path, legacyResult, srtFile, produced>>
                   [] oc = "removed" ->
                        /\ lpc' = AfterStage(lpc)
                        /\ legacy_video_path' = "bad_takes_removed"
                        /\ \E tr \in {"ok", "fail_before_open", "fail_writing"} :
                             /\ srtFile' = SrtAfterTranscribe(tr)
                             /\ produced' = (produced \/ tr = "ok")
                        /\ UNCHANGED legacyResult
                   [] oc = "raise" ->
                        /\ lpc' = "done"
                        /\ legacyResult' = "raised"
                        /\ UNCHANGED <<legacy_video_path, srtFile, produced>>
       ELSE /\ LegacySkip
            /\ UNCHANGED <<srtFile, produced, dependentsRun>>

\* Step 4, lines 1906-1910: correct_subtitles_with_gpt4o returns False on any error
LegacyGptCorrection ==
    /\ lpc = "gpt_correct"
    /\ LegacyFrame
    /\ UNCHANGED <<flags, srtFile, produced, textBound, assFor, burnedFile>>
    /\ IF ~flags["skip_gpt_correct"] /\ srtFile # "absent"
       THEN /\ LegacyEmit("GPT Correction")
            /\ ReadsTranscript("gpt_correct")
            /\ lpc' = AfterStage(lpc)
            /\ UNCHANGED <<legacy_video_path, legacyResult>>
       ELSE LegacySkip /\ UNCHANGED dependentsRun

\* Step 5, lines 1914-1923: needs a non-empty transcript; binds transcript_text
LegacyTopicDetection ==
    /\ lpc = "topic_detection"
    /\ LegacyFrame
    /\ UNCHANGED <<flags, srtFile, produced, assFor, burnedFile>>
    /\ IF srtFile \in {"stale", "fresh"}
       THEN /\ LegacyEmit("AI Topic Detection")
            /\ ReadsTranscript("topic_detection")
            /\ textBound' = TRUE
            /\ lpc' = AfterStage(lpc)
            /\ UNCHANGED <<legacy_video_path, legacyResult>>
       ELSE LegacySkip /\ UNCHANGED <<textBound, dependentsRun>>

\* Step 6, lines 1925-1929: binds transcript_text
LegacyMultimediaAnalysis ==
    /\ lpc = "multimedia_analysis"
    /\ LegacyFrame
    /\ UNCHANGED <<flags, srtFile, produced, assFor, burnedFile>>
    /\ IF (~flags["skip_broll"] \/ ~flags["skip_image_generation"]) /\ srtFile # "absent"
       THEN /\ LegacyEmit("AI Multimedia Analysis")
            /\ ReadsTranscript("multimedia_analysis")
            /\ textBound' = TRUE
            /\ lpc' = AfterStage(lpc)
            /\ UNCHANGED <<legacy_video_path, legacyResult>>
       ELSE LegacySkip /\ UNCHANGED <<textBound, dependentsRun>>

\* Step 7, lines 1931-1956: reads the local transcript_text (UnboundLocalError when
\* neither step 5 nor step 6 ran); the .ass file is named after the working artifact
LegacyHighlights ==
    /\ lpc = "highlights"
    /\ LegacyFrame
    /\ UNCHANGED <<flags, srtFile, produced, textBound, burnedFile, legacy_video_path>>
    /\ IF (~flags["skip_ai_highlights"] \/ flags["use_ai_word_highlighting"])
          /\ srtFile # "absent"
       THEN /\ LegacyEmit("AI Highlights")
            /\ ReadsTranscript("highlights")
            /\ IF ~textBound
               THEN lpc' = "done" /\ legacyResult' = "raised" /\ UNCHANGED assFor
               ELSE /\ lpc' = AfterStage(lpc)
                    /\ UNCHANGED legacyResult
                    /\ \E written \in (IF flags["use_ai_word_highlighting"]
                                       THEN BOOLEAN ELSE {FALSE}) :
                         assFor' = IF written THEN legacy_video_path ELSE assFor
       ELSE /\ lpc' = AfterStage(lpc)
            /\ LegacyNoEmit
            /\ UNCHANGED <<legacyResult, assFor, dependentsRun>>

\* Step 8, lines 1958-2011: the call is inside try/except, which logs a warning
LegacyMultimedia ==
    /\ lpc = "multimedia"
    /\ LegacyFrame
    /\ UNCHANGED <<flags, srtFile, produced, textBound, assFor, burnedFile>>
    /\ IF (~flags["skip_broll"] \/ ~flags["skip_image_generation"]) /\ srtFile # "absent"
       THEN /\ LegacyEmit("AI Multimedia")
            /\ ReadsTranscript("multimedia")
            /\ LegacyProduce("multimedia", {"ok", "fail"})
       ELSE LegacySkip /\ UNCHANGED dependentsRun

\* Step 9, lines 2012-2034
LegacyZoom ==
    /\ lpc = "zoom"
    /\ LegacyFrame
    /\ UNCHANGED transcriptSide
    /\ IF flags["skip_enhanced_auto_zoom"]
       THEN LegacySkip
       ELSE LegacyEmit("Enhanced Auto Zoom") /\ LegacyProduce("enhanced_zoom", {"ok", "fail", "raise"})

\* Step 10, lines 2038-2046
LegacyTopicCard ==
    /\ lpc = "topic_card"
    /\ LegacyFrame
    /\ UNCHANGED transcriptSide
    /\ IF flags["skip_topic_card"]
       THEN LegacySkip
       ELSE LegacyEmit("Topic Title Card") /\ LegacyProduce("topic_card", {"ok", "fail", "raise"})

\* Step 11, lines 2048-2056
LegacyFlashLogo ==
    /\ lpc = "flash_logo"
    /\ LegacyFrame
    /\ UNCHANGED transcriptSide
    /\ IF flags["skip_flash_logo"]
       THEN LegacySkip
       ELSE LegacyEmit("Flash Logo") /\ LegacyProduce("logo", {"ok", "fail", "raise"})

\* Step 12, lines 2058-2066
LegacyOutro ==
    /\ lpc = "outro"
    /\ LegacyFrame
    /\ UNCHANGED transcriptSide
    /\ IF flags["skip_outro"]
       THEN LegacySkip
       ELSE LegacyEmit("Outro Addition") /\ LegacyProduce("outro", {"ok", "fail", "raise"})

\* Step 13, lines 2070-2085
LegacyBackgroundMusic ==
    /\ lpc = "music"
    /\ LegacyFrame
    /\ UNCHANGED transcriptSide
    /\ IF flags["skip_background_music"]
       THEN LegacySkip
       ELSE LegacyEmit("Background Music") /\ LegacyProduce("music", {"ok", "fail", "raise"})

\* Step 14, lines 2087-2110: the body is inside try/except, which logs a warning
LegacySoundEffects ==
    /\ lpc = "sound_effects"
    /\ LegacyFrame
    /\ UNCHANGED transcriptSide
    /\ IF flags["skip_sound_effects"]
       THEN LegacySkip
       ELSE LegacyEmit("Sound Effects") /\ LegacyProduce("sfx", {"ok", "fail"})

\* lines 2115-2117: highlighted_<stem of the working artifact>.ass when that file
\* exists, else the transcript
SubtitleFileToBurn == IF assFor = legacy_video_path THEN "ass" ELSE "srt"

\* Step 15, lines 2111-2127
LegacySubtitleBurn ==
    /\ lpc = "subtitle_burn"
    /\ LegacyFrame
    /\ UNCHANGED <<flags, srtFile, produced, textBound, assFor>>
    /\ IF ~flags["skip_subtitle_burn"] /\ srtFile # "absent"
       THEN /\ LegacyEmit("Subtitle Burning")
            /\ ReadsTranscript("subtitle_burn")
            /\ burnedFile' = SubtitleFileToBurn
            /\ LegacyProduce("subtitled", {"ok", "fail", "raise"})
       ELSE LegacySkip /\ UNCHANGED <<dependentsRun, burnedFile>>

\* Step 16, lines 2129-2137
LegacyFrameStage ==
    /\ lpc = "frame"
    /\ LegacyFrame
    /\ UNCHANGED transcriptSide
    /\ IF flags["skip_frame"]
       THEN LegacySkip
       ELSE LegacyEmit("Add Frame") /\ LegacyProduce("framed", {"ok", "fail", "raise"})

\* lines 2142-2146: shutil.move(current_video_path, edited_videos/<input name>)
LegacyFinalize ==
    /\ lpc = "finalize"
    /\ legacyInputInPlace' = (legacy_video_path # "input")
    /\ legacyResult' = "final_output_path"
    /\ lpc' = "done"
    /\ LegacyNoEmit
    /\ UNCHANGED <<legacy_video_path, legacy_total_steps>>
    /\ UNCHANGED transcriptSide
    /\ UNCHANGED <<builderVars, adjustVars, overlapVars, optVars, zoomVars, gptVars, cutVars, composeVars, batchVars, silenceVars, takeVars, lifeVars, quotaVars, srtVars>>

LegacyNext ==
    \/ LegacySetup
    \/ LegacyAudio
    \/ LegacySilence
    \/ LegacyTranscription
    \/ LegacyBadTakeRemoval
    \/ LegacyGptCorrection
    \/ LegacyTopicDetection
    \/ LegacyMultimediaAnalysis
    \/ LegacyHighlights
    \/ LegacyMultimedia
    \/ LegacyZoom
    \/ LegacyTopicCard
    \/ LegacyFlashLogo
    \/ LegacyOutro
    \/ LegacyBackgroundMusic
    \/ LegacySoundEffects
    \/ LegacySubtitleBurn
    \/ LegacyFrameStage
    \/ LegacyFinalize

SpecLegacy == LegacyInit /\ [][LegacyNext]_vars

\* ======================================================================
\* zoom_function of CompositeVideoBuilder._apply_zoom_effect
\* ======================================================================
\* Times are in units of 0.5 s, zoom factors and centres in hundredths.  A value
\* computed by the interpolation is kept as the exact fraction <<numerator, denominator>>.

\* zoom_factor, center_x, center_y of the keyframes explored
KeyframeLooks ==
    {[zoom_factor |-> 100, center_x |-> 50, center_y |-> 50],
     [zoom_factor |-> 120, center_x |-> 25, center_y |-> 75],
     [zoom_factor |-> 150, center_x |-> 50, center_y |-> 20]}

ZoomKeyframe(time, look) ==
    [time |-> time, zoom_factor |-> look.zoom_factor, center_x |-> look.center_x,
     center_y |-> look.center_y]

KeyframeSet == {ZoomKeyframe(tm, look) : tm \in 0..MaxKfTime, look \in KeyframeLooks}

\* the documented example [(0, 1.0), (3, 1.2)] and its query times -1, 1.5, 10
ExampleKeyframes ==
    <<[time |-> 0, zoom_factor |-> 100, center_x |-> 50, center_y |-> 50],
      [time |-> 6, zoom_factor |-> 120, center_x |-> 50, center_y |-> 50]>>
ExampleFrameTimes == {-2, 3, 20}

\* sorted(keyframes, key=lambda k: k.time), line 130: stable
RECURSIVE InsertByTime(_, _)
InsertByTime(sorted, k) ==
    IF sorted = <<>> THEN <<k>>
    ELSE IF k.time < Head(sorted).time THEN <<k>> \o sorted
         ELSE <<Head(sorted)>> \o InsertByTime(Tail(sorted), k)

RECURSIVE SortByTime(_)
SortByTime(ks) ==
    IF ks = <<>> THEN <<>>
    ELSE InsertByTime(SortByTime(SubSeq(ks, 1, Len(ks) - 1)), ks[Len(ks)])

\* lines 257-258: the index of the first keyframe with t < kf.time, 0 when the loop
\* ends without a break
RECURSIVE FirstLater(_, _, _)
FirstLater(kfs, t, i) ==
    IF i > Len(kfs) THEN 0
    ELSE IF t < kfs[i].time THEN i
         ELSE FirstLater(kfs, t, i + 1)

\* a step function in place of the interpolation
LerpHoldPrevious(a, b, num, den) == <<a, 1>>

\* lines 266-269: a + progress * (b - a) with progress = num / den
Lerp(a, b, num, den) == <<a * den + num * (b - a), den>>

Held(kf) ==
    [zoom_factor |-> <<kf.zoom_factor, 1>>, center_x |-> <<kf.center_x, 1>>,
     center_y |-> <<kf.center_y, 1>>]

\* lines 253-276
zoom_function(kfs, t) ==
    LET i == FirstLater(kfs, t, 1)
    IN  IF i = 0 THEN Held(kfs[Len(kfs)])
        ELSE IF i = 1 THEN Held(kfs[1])
        ELSE LET prev_kf == kfs[i - 1]
                 kf == kfs[i]
                 num == t - prev_kf.time
                 den == kf.time - prev_kf.time
             IN  [zoom_factor |-> Lerp(prev_kf.zoom_factor, kf.zoom_factor, num, den),
                  center_x |-> Lerp(prev_kf.center_x, kf.center_x, num, den),
                  center_y |-> Lerp(prev_kf.center_y, kf.center_y, num, den)]

ZoomInit ==
    /\ BuilderIdle
    /\ AdjustIdle
    /\ OverlapIdle
    /\ OptIdle
    /\ LegacyIdle
    /\ GptIdle
    /\ CutIdle
    /\ ComposeIdle
    /\ BatchIdle
    /\ SilenceIdle
    /\ TakeIdle
    /\ LifeIdle
    /\ QuotaIdle
    /\ SrtIdle
    /\ zpc = "given"
    /\ keyframes \in SeqsUpTo(KeyframeSet, MaxKeyframes) \cup {ExampleKeyframes}
    /\ sorted_keyframes = <<>>
    /\ frame_t = 0
    /\ zoomAt = <<>>

\* add_zoom_keyframes, lines 120-132
ZoomAddKeyframes ==
    /\ zpc = "given"
    /\ sorted_keyframes' = SortByTime(keyframes)
    /\ zpc' = "queued"
    /\ UNCHANGED <<keyframes, frame_t, zoomAt>>
    /\ UNCHANGED <<builderVars, adjustVars, overlapVars, optVars, legacyVars, gptVars, cutVars, composeVars, batchVars, silenceVars, takeVars, lifeVars, quotaVars, srtVars>>

\* one call of zoom_function by clip.fl; _apply_zoom_effect returns the clip unchanged
\* when no keyframe is queued (lines 242-243)
ZoomFrame ==
    /\ zpc = "queued"
    /\ sorted_keyframes # <<>>
    /\ \E t \in (IF keyframes = ExampleKeyframes THEN ExampleFrameTimes
                 ELSE -1..(MaxKfTime + 1)) :
         /\ frame_t' = t
         /\ zoomAt' = zoom_function(sorted_keyframes, t)
    /\ zpc' = "done"
    /\ UNCHANGED <<keyframes, sorted_keyframes>>
    /\ UNCHANGED <<builderVars, adjustVars, overlapVars, optVars, legacyVars, gptVars, cutVars, composeVars, batchVars, silenceVars, takeVars, lifeVars, quotaVars, srtVars>>

ZoomNext ==
    \/ ZoomAddKeyframes
    \/ ZoomFrame

SpecZoom == ZoomInit /\ [][ZoomNext]_vars

\* ======================================================================
\* correct_subtitles_with_gpt4o
\* ======================================================================
\* An SRT text is kept as its list of segments: start, end, text.

SegmentSet ==
    {[start |-> a, end |-> b, text |-> x] :
        a \in 0..MaxSegTime, b \in 0..MaxSegTime, x \in {"heart", "hart"}}

\* transcribe_video_whisper writes the segments in ascending time
SrtFiles ==
    {f \in SeqsUpTo({g \in SegmentSet : g.start < g.end}, MaxSegments) :
        \A i \in 1..(Len(f) - 1) : f[i].end <= f[i + 1].start}

\* what the chat completion can give back (lines 405-410): an SRT text with any
\* segments, an SRT text inside a markdown fence, a text that is no SRT, or an exception
GptResponses ==
    {[kind |-> "srt", segments |-> f] : f \in SeqsUpTo(SegmentSet, MaxSegments)}
    \cup {[kind |-> k, segments |-> <<>>] : k \in {"fenced_srt", "prose", "exception"}}

\* line 411: "-->" in corrected_srt and corrected_srt.lstrip().startswith('1')
AcceptedAsSrt(response) == response.kind = "srt" /\ response.segments # <<>>

GptInit ==
    /\ BuilderIdle
    /\ AdjustIdle
    /\ OverlapIdle
    /\ OptIdle
    /\ LegacyIdle
    /\ ZoomIdle
    /\ CutIdle
    /\ ComposeIdle
    /\ BatchIdle
    /\ SilenceIdle
    /\ TakeIdle
    /\ LifeIdle
    /\ QuotaIdle
    /\ SrtIdle
    /\ gpc = "given"
    /\ api_key \in BOOLEAN
    /\ srt_file \in SrtFiles
    /\ srt_before = srt_file
    /\ gpt_returned = "none"

\* lines 383-421
correct_subtitles_with_gpt4o ==
    /\ gpc = "given"
    /\ gpc' = "done"
    /\ IF ~api_key
       THEN gpt_returned' = "False" /\ UNCHANGED srt_file
       ELSE \E response \in GptResponses :
              IF AcceptedAsSrt(response)
              THEN srt_file' = response.segments /\ gpt_returned' = "True"
              ELSE gpt_returned' = "False" /\ UNCHANGED srt_file
    /\ UNCHANGED <<api_key, srt_before>>
    /\ UNCHANGED <<builderVars, adjustVars, overlapVars, optVars, legacyVars, zoomVars, cutVars, composeVars, batchVars, silenceVars, takeVars, lifeVars, quotaVars, srtVars>>

GptNext == correct_subtitles_with_gpt4o

SpecGpt == GptInit /\ [][GptNext]_vars

\* ======================================================================
\* CompositeVideoBuilder._apply_silence_cuts on the kept intervals themselves
\* ======================================================================
\* Times are whole seconds.  A clip is the list of source intervals it plays.

\* SilenceCut values inside the source: a segment to keep, start < end
SilenceCutSet == {c \in Intervals(0, SourceLen) : c.start < c.end}

\* the example of the specification: a 60 s source with the span [20,30) removed
ExampleSourceDuration == 60
ExampleKept == <<[start |-> 0, end |-> 20], [start |-> 30, end |-> 60]>>

\* video_analysis.py line 159: sum(cut.end - cut.start for cut in silence_cuts)
RECURSIVE calculate_total_duration_after_cuts(_)
calculate_total_duration_after_cuts(cuts) ==
    IF cuts = <<>> THEN 0
    ELSE (Head(cuts).end - Head(cuts).start) + calculate_total_duration_after_cuts(Tail(cuts))

\* duration of a clip made by concatenate_videoclips: the sum of its parts
ClipDuration(parts) == calculate_total_duration_after_cuts(parts)

\* lines 222-229: the subclips appended, in the order of self.silence_cuts,
\* leaving out those whose extraction raised
RECURSIVE Subclips(_, _)
Subclips(cuts, outcome) ==
    IF cuts = <<>> THEN <<>>
    ELSE LET rest == Subclips(Tail(cuts), Tail(outcome))
         IN  IF Head(outcome) = "ok" THEN <<Head(cuts)>> \o rest ELSE rest

CutInit ==
    /\ BuilderIdle
    /\ AdjustIdle
    /\ OverlapIdle
    /\ OptIdle
    /\ LegacyIdle
    /\ ZoomIdle
    /\ GptIdle
    /\ ComposeIdle
    /\ BatchIdle
    /\ SilenceIdle
    /\ TakeIdle
    /\ LifeIdle
    /\ QuotaIdle
    /\ SrtIdle
    /\ cpc = "given"
    /\ \/ /\ source_duration = SourceLen
          /\ cuts_given \in SeqsUpTo(SilenceCutSet, MaxPieces)
       \/ /\ source_duration = ExampleSourceDuration
          /\ cuts_given = ExampleKept
    /\ kept_cuts = <<>>
    /\ working_clip = <<>>

\* add_silence_cuts, line 116: self.silence_cuts = cuts
CutAddSilenceCuts ==
    /\ cpc = "given"
    /\ kept_cuts' = cuts_given
    /\ cpc' = "queued"
    /\ UNCHANGED <<builderVars, adjustVars, overlapVars, optVars, legacyVars, zoomVars, gptVars, composeVars, batchVars, silenceVars, takeVars, lifeVars, quotaVars, srtVars>>
    /\ UNCHANGED <<source_duration, cuts_given, working_clip>>

\* render() lines 409-411 and _apply_silence_cuts, lines 215-238
CutApplySilenceCuts ==
    /\ cpc = "queued"
    /\ UNCHANGED <<builderVars, adjustVars, overlapVars, optVars, legacyVars, zoomVars, gptVars, composeVars, batchVars, silenceVars, takeVars, lifeVars, quotaVars, srtVars>>
    /\ UNCHANGED <<source_duration, cuts_given, kept_cuts>>
    /\ IF kept_cuts = <<>>
       THEN \* line 410: the step is skipped, the clip stays the base clip
            /\ working_clip' = <<[start |-> 0, end |-> source_duration]>>
            /\ cpc' = "cut"
       ELSE \E outcome \in [1..Len(kept_cuts) -> {"ok", "raise"}],
               concat \in {"ok", "raise"} :
              LET subclips == Subclips(kept_cuts, outcome)
              IN  IF subclips = <<>>
                  THEN \* lines 231-233: no valid subclip, the original clip is returned
                       /\ concat = "ok"
                       /\ working_clip' = <<[start |-> 0, end |-> source_duration]>>
                       /\ cpc' = "cut"
                  ELSE IF concat = "ok"
                  THEN \* line 236: concatenate_videoclips(subclips, method="compose")
                       /\ working_clip' = subclips
                       /\ cpc' = "cut"
                  ELSE \* the exception of concatenate_videoclips leaves render()
                       /\ working_clip' = <<>>
                       /\ cpc' = "raised"

CutNext ==
    \/ CutAddSilenceCuts
    \/ CutApplySilenceCuts

SpecCut == CutInit /\ [][CutNext]_vars

\* ======================================================================
\* render() steps 3 to 6 with durations: overlays, music, intro, outro
\* ======================================================================
\* Times are whole seconds.  The clip handed to _apply_media_overlays is the
\* post-cut (and zoomed) clip; only its duration matters here.

\* MediaOverlay values explored: start_time and duration
MediaOverlaySet ==
    {[start_time |-> s, duration |-> d] : s \in 0..MaxPostCut, d \in {1, 2}}

\* durations of the music file: none queued, shorter than any clip of two
\* seconds or more, longer than every clip
MusicTracks == {0, 1, MaxPostCut + 3}

RECURSIVE TotalDuration(_)
TotalDuration(durations) ==
    IF durations = <<>> THEN 0 ELSE Head(durations) + TotalDuration(Tail(durations))

\* lines 312-333: the overlays that were loaded, in list order
RECURSIVE LoadedOverlays(_, _)
LoadedOverlays(overlays, outcome) ==
    IF overlays = <<>> THEN <<>>
    ELSE LET rest == LoadedOverlays(Tail(overlays), Tail(outcome))
         IN  IF Head(outcome) = "ok" THEN <<Head(overlays)>> \o rest ELSE rest

\* line 328: set_start(overlay.start_time) on a clip of overlay.duration
OverlayEnd(overlay) == overlay.start_time + overlay.duration

\* line 336: CompositeVideoClip([clip] + overlay_clips) lasts until the latest
\* end of its clips
RECURSIVE CompositeDuration(_, _)
CompositeDuration(base, overlays) ==
    IF overlays = <<>> THEN base
    ELSE LET latest == CompositeDuration(base, Tail(overlays))
         IN  IF OverlayEnd(Head(overlays)) > latest THEN OverlayEnd(Head(overlays))
             ELSE latest

\* line 356: int(np.ceil(clip.duration / music.duration))
Loops(clip_len, music_len) == (clip_len + music_len - 1) \div music_len

\* lines 355-359: the music cut to subclip(0, clip.duration), looped first when
\* the track is shorter than the clip
FittedMusic(clip_len, music_len) ==
    IF music_len < clip_len
    THEN <<0, Min(Loops(clip_len, music_len) * music_len, clip_len)>>
    ELSE <<0, Min(music_len, clip_len)>>

\* concatenation puts a clip's audio after what is placed in front of it
Shifted(span, by) == IF span = <<>> THEN <<>> ELSE <<span[1] + by, span[2] + by>>

ComposeInit ==
    /\ BuilderIdle
    /\ AdjustIdle
    /\ OverlapIdle
    /\ OptIdle
    /\ LegacyIdle
    /\ ZoomIdle
    /\ GptIdle
    /\ CutIdle
    /\ BatchIdle
    /\ SilenceIdle
    /\ TakeIdle
    /\ LifeIdle
    /\ QuotaIdle
    /\ SrtIdle
    /\ mpc = "overlays"
    /\ post_cut_duration \in 1..MaxPostCut
    /\ overlay_list \in SeqsUpTo(MediaOverlaySet, MaxQueued)
    /\ music_track \in MusicTracks
    \* the intro and outro clips queued: none or one
    /\ intro_durations \in {<<>>, <<1>>}
    /\ outro_durations \in {<<>>, <<2>>}
    /\ composited = <<>>
    /\ comp_duration = post_cut_duration
    /\ music_span = <<>>

ComposeFrame ==
    /\ UNCHANGED <<builderVars, adjustVars, overlapVars, optVars, legacyVars, zoomVars, gptVars, cutVars, batchVars, silenceVars, takeVars, lifeVars, quotaVars, srtVars>>
    /\ UNCHANGED <<post_cut_duration, overlay_list, music_track, intro_durations,
                   outro_durations>>

\* render() lines 417-419 and _apply_media_overlays, lines 304-340
ComposeMediaOverlays ==
    /\ mpc = "overlays"
    /\ ComposeFrame
    /\ mpc' = "music"
    /\ UNCHANGED music_span
    /\ \E outcome \in [1..Len(overlay_list) -> {"ok", "raise"}] :
         LET overlay_clips == LoadedOverlays(overlay_list, outcome)
         IN  /\ composited' = overlay_clips
             /\ comp_duration' = CompositeDuration(comp_duration, overlay_clips)

\* render() lines 421-423 and _apply_background_music, lines 342-377
ComposeBackgroundMusic ==
    /\ mpc = "music"
    /\ ComposeFrame
    /\ mpc' = "intro"
    /\ UNCHANGED <<composited, comp_duration>>
    /\ IF music_track = 0
       THEN music_span' = <<>>
       ELSE \E outcome \in {"ok", "missing", "raise"} :
              music_span' = IF outcome = "ok"
                            THEN FittedMusic(comp_duration, music_track)
                            ELSE <<>>

\* render() lines 425-427: concatenate_videoclips(self.intro_clips + [clip])
ComposePrependIntro ==
    /\ mpc = "intro"
    /\ ComposeFrame
    /\ mpc' = "outro"
    /\ UNCHANGED composited
    /\ comp_duration' = TotalDuration(intro_durations) + comp_duration
    /\ music_span' = Shifted(music_span, TotalDuration(intro_durations))

\* render() lines 429-431: concatenate_videoclips([clip] + self.outro_clips)
ComposeAppendOutro ==
    /\ mpc = "outro"
    /\ ComposeFrame
    /\ mpc' = "built"
    /\ UNCHANGED <<composited, music_span>>
    /\ comp_duration' = comp_duration + TotalDuration(outro_durations)

ComposeNext ==
    \/ ComposeMediaOverlays
    \/ ComposeBackgroundMusic
    \/ ComposePrependIntro
    \/ ComposeAppendOutro

SpecCompose == ComposeInit /\ [][ComposeNext]_vars

\* ======================================================================
\* main() of the uploader: the loop over files_to_process
\* ======================================================================

\* line 1047: choices of --mode
Modes == {"dry-run", "full-upload", "batch-upload", "process-only"}

VideoFiles == {"a.mp4", "b.mp4", "c.mov"}

\* what the core process_video does for one video: returns a path, returns
\* None, or raises
CoreOutcomes == {"path", "None", "raise"}

\* YouTubeUploader.process_video with the try left out: the exception of the
\* core pipeline reaches the caller
UploaderResultUncaught(outcome) ==
    IF outcome = "path" THEN "dict" ELSE IF outcome = "None" THEN "None" ELSE "raised"

\* YouTubeUploader.process_video, lines 919-1040: a dict when the core returned
\* a path (1033-1035), None when it returned None (1036-1038) or raised (1040-1042)
UploaderResult(outcome) == IF outcome = "path" THEN "dict" ELSE "None"

BatchInit ==
    /\ BuilderIdle
    /\ AdjustIdle
    /\ OverlapIdle
    /\ OptIdle
    /\ LegacyIdle
    /\ ZoomIdle
    /\ GptIdle
    /\ CutIdle
    /\ ComposeIdle
    /\ SilenceIdle
    /\ TakeIdle
    /\ LifeIdle
    /\ QuotaIdle
    /\ SrtIdle
    /\ upc = "parsed"
    /\ mode \in Modes
    /\ files_to_process \in SeqsUpTo(VideoFiles, MaxVideos)
    /\ batch_log = <<>>

BatchFrame ==
    UNCHANGED <<builderVars, adjustVars, overlapVars, optVars, legacyVars, zoomVars, gptVars, cutVars, composeVars, silenceVars, takeVars, lifeVars, quotaVars, srtVars>>

\* lines 1185-1196: nothing to process, or the list cut to its first entry in
\* 'full-upload' mode
BatchSelect ==
    /\ upc = "parsed"
    /\ BatchFrame
    /\ UNCHANGED <<mode, batch_log>>
    /\ IF files_to_process = <<>>
       THEN upc' = "done" /\ UNCHANGED files_to_process
       ELSE /\ upc' = "loop"
            /\ files_to_process' =
                 IF mode = "full-upload" /\ Len(files_to_process) > 1
                 THEN SubSeq(files_to_process, 1, 1)
                 ELSE files_to_process

\* lines 1200-1214: one iteration of the for loop
BatchProcessVideo ==
    /\ upc = "loop"
    /\ BatchFrame
    /\ UNCHANGED <<mode, files_to_process>>
    /\ \E outcome \in CoreOutcomes :
         LET i == Len(batch_log) + 1
             res == UploaderResult(outcome)
         IN  IF res = "raised"
             THEN \* nothing in main() catches: the loop is left
                  /\ batch_log' = Append(batch_log,
                        [position |-> i, video |-> files_to_process[i], core |-> outcome,
                         result |-> res, reported |-> FALSE])
                  /\ upc' = "aborted"
             ELSE /\ batch_log' = Append(batch_log,
                        [position |-> i, video |-> files_to_process[i], core |-> outcome,
                         result |-> res,
                         \* lines 1213-1214: elif not result: logger.error(...)
                         reported |-> (res = "None")])
                  /\ upc' = IF i = Len(files_to_process) THEN "done" ELSE "loop"

BatchNext ==
    \/ BatchSelect
    \/ BatchProcessVideo

SpecBatch == BatchInit /\ [][BatchNext]_vars

\* ======================================================================
\* analyze_silence_segments
\* ======================================================================
\* Times are whole seconds; second u stands for the span [u, u + 1).

SilenceInit ==
    /\ BuilderIdle
    /\ AdjustIdle
    /\ OverlapIdle
    /\ OptIdle
    /\ LegacyIdle
    /\ ZoomIdle
    /\ GptIdle
    /\ CutIdle
    /\ ComposeIdle
    /\ BatchIdle
    /\ TakeIdle
    /\ LifeIdle
    /\ QuotaIdle
    /\ SrtIdle
    /\ sil_pc = "given"
    /\ audio_duration \in 1..MaxAudio
    /\ audible \in SUBSET (0..(audio_duration - 1))
    /\ margin \in {0, 1}
    /\ silence_analysis = <<>>

\* lines 26-48: whatever the video, the threshold and the margin, the
\* function logs and returns []
analyze_silence_segments ==
    /\ sil_pc = "given"
    /\ silence_analysis' = <<>>
    /\ sil_pc' = "analyzed"
    /\ UNCHANGED <<audio_duration, audible, margin>>
    /\ UNCHANGED <<builderVars, adjustVars, overlapVars, optVars, legacyVars, zoomVars, gptVars, cutVars, composeVars, batchVars, takeVars, lifeVars, quotaVars, srtVars>>

SilenceNext == analyze_silence_segments

SpecSilence == SilenceInit /\ [][SilenceNext]_vars

\* ======================================================================
\* remove_bad_takes
\* ======================================================================
\* Times are whole seconds.

\* a detected bad take: start_time < end_time
BadTakeSet ==
    {t \in [start_time : 0..MaxTakeTime, end_time : 0..MaxTakeTime] :
        t.start_time < t.end_time}

\* line 402: sorted(bad_takes, key=lambda x: x['start_time']), a stable sort
RECURSIVE InsertByStartTime(_, _)
InsertByStartTime(sorted, x) ==
    IF sorted = <<>> THEN <<x>>
    ELSE IF Head(sorted).start_time <= x.start_time
         THEN <<Head(sorted)>> \o InsertByStartTime(Tail(sorted), x)
         ELSE <<x>> \o sorted

RECURSIVE SortByStartTime(_)
SortByStartTime(xs) ==
    IF xs = <<>> THEN <<>>
    ELSE InsertByStartTime(SortByStartTime(SubSeq(xs, 1, Len(xs) - 1)), xs[Len(xs)])

\* line 412: last_end = end_remove
LastEnd(last_end, end_remove) == end_remove

\* lines 404-416: the loop over the sorted bad takes and the final segment
RECURSIVE SegmentsToKeep(_, _, _)
SegmentsToKeep(takes, last_end, duration) ==
    IF takes = <<>>
    THEN IF last_end < duration THEN <<[start |-> last_end, end |-> duration]>> ELSE <<>>
    ELSE LET start_remove == Head(takes).start_time
             end_remove == Head(takes).end_time
             rest == SegmentsToKeep(Tail(takes), LastEnd(last_end, end_remove), duration)
         IN  IF start_remove > last_end
             THEN <<[start |-> last_end, end |-> start_remove]>> \o rest
             ELSE rest

\* lines 419-423: only segments longer than 0.1 s are cut out and concatenated
RECURSIVE LongEnough(_)
LongEnough(segments) ==
    IF segments = <<>> THEN <<>>
    ELSE IF Head(segments).end - Head(segments).start >= 1
         THEN <<Head(segments)>> \o LongEnough(Tail(segments))
         ELSE LongEnough(Tail(segments))

TakeInit ==
    /\ BuilderIdle
    /\ AdjustIdle
    /\ OverlapIdle
    /\ OptIdle
    /\ LegacyIdle
    /\ ZoomIdle
    /\ GptIdle
    /\ CutIdle
    /\ ComposeIdle
    /\ BatchIdle
    /\ SilenceIdle
    /\ LifeIdle
    /\ QuotaIdle
    /\ SrtIdle
    /\ bad_takes \in SeqsUpTo(BadTakeSet, MaxBadTakes)
    /\ take_duration = MaxTakeTime
    /\ kept_segments = <<>>
    /\ takesDone = FALSE

\* advanced_editing.py lines 387-423 (ai_bad_take_detector.py 503-524 builds the
\* segments the same way)
remove_bad_takes ==
    /\ ~takesDone
    /\ kept_segments' =
          IF bad_takes = <<>>
          THEN \* lines 387-391: the original video is copied
               <<[start |-> 0, end |-> take_duration]>>
          ELSE LongEnough(SegmentsToKeep(SortByStartTime(bad_takes), 0, take_duration))
    /\ takesDone' = TRUE
    /\ UNCHANGED <<bad_takes, take_duration>>
    /\ UNCHANGED <<builderVars, adjustVars, overlapVars, optVars, legacyVars, zoomVars, gptVars, cutVars, composeVars, batchVars, silenceVars, lifeVars, quotaVars, srtVars>>

TakeNext == remove_bad_takes

SpecTake == TakeInit /\ [][TakeNext]_vars

\* ======================================================================
\* CompositeVideoBuilder: add_intro, add_outro and repeated render() calls
\* ======================================================================
\* A clip is known by its handle, the number it got when it was opened.

LifeInit ==
    /\ BuilderIdle
    /\ AdjustIdle
    /\ OverlapIdle
    /\ OptIdle
    /\ LegacyIdle
    /\ ZoomIdle
    /\ GptIdle
    /\ CutIdle
    /\ ComposeIdle
    /\ BatchIdle
    /\ SilenceIdle
    /\ TakeIdle
    /\ QuotaIdle
    /\ SrtIdle
    /\ queued_intros = <<>>
    /\ queued_outros = <<>>
    /\ tracked_clips = <<>>
    /\ open_clips = {}
    /\ next_clip = 1
    /\ renders = <<>>

LifeFrame ==
    UNCHANGED <<builderVars, adjustVars, overlapVars, optVars, legacyVars, zoomVars, gptVars, cutVars, composeVars, batchVars, silenceVars, takeVars, quotaVars, srtVars>>

\* add_intro, lines 175-177: the clip is opened, queued and tracked for cleanup
LifeAddIntro ==
    /\ next_clip <= MaxClipsOpened
    /\ queued_intros' = Append(queued_intros, next_clip)
    /\ tracked_clips' = Append(tracked_clips, next_clip)
    /\ open_clips' = open_clips \cup {next_clip}
    /\ next_clip' = next_clip + 1
    /\ UNCHANGED <<queued_outros, renders>>
    /\ LifeFrame

\* add_outro, lines 191-193
LifeAddOutro ==
    /\ next_clip <= MaxClipsOpened
    /\ queued_outros' = Append(queued_outros, next_clip)
    /\ tracked_clips' = Append(tracked_clips, next_clip)
    /\ open_clips' = open_clips \cup {next_clip}
    /\ next_clip' = next_clip + 1
    /\ UNCHANGED <<queued_intros, renders>>
    /\ LifeFrame

\* render(), lines 400-452: the base clip is opened and tracked (402-403), the
\* queued intro and outro clips are concatenated with it (425-431), the result is
\* encoded (437-445), and _cleanup (454-462) closes every tracked clip and clears
\* self._loaded_clips; self.intro_clips and self.outro_clips are left as they are.
\* outcome "raise_load": VideoFileClip of the input raises, nothing is concatenated
LifeRender ==
    /\ Len(renders) < MaxRenders
    /\ next_clip <= MaxClipsOpened + MaxRenders
    /\ \E outcome \in {"ok", "raise_load", "raise_encode"} :
         LET base == next_clip
             opened == IF outcome = "raise_load" THEN open_clips ELSE open_clips \cup {base}
             tracked == IF outcome = "raise_load" THEN tracked_clips
                        ELSE Append(tracked_clips, base)
             concatenated == IF outcome = "raise_load" THEN {}
                             ELSE Range(queued_intros) \cup Range(queued_outros)
         IN  /\ renders' = Append(renders,
                    [outcome |-> outcome, concatenated |-> concatenated,
                     closed_used |-> concatenated \ opened])
             /\ open_clips' = opened \ Range(tracked)
             /\ tracked_clips' = <<>>
             /\ next_clip' = next_clip + 1
    /\ UNCHANGED <<queued_intros, queued_outros>>
    /\ LifeFrame

LifeNext ==
    \/ LifeAddIntro
    \/ LifeAddOutro
    \/ LifeRender

SpecLife == LifeInit /\ [][LifeNext]_vars

\* ======================================================================
\* YouTubeCacheManager: quota statistics of one channel, several instances
\* ======================================================================
\* cache_hits is the counter of one data type ('scheduled_videos').

QuotaInit ==
    /\ BuilderIdle
    /\ AdjustIdle
    /\ OverlapIdle
    /\ OptIdle
    /\ LegacyIdle
    /\ ZoomIdle
    /\ GptIdle
    /\ CutIdle
    /\ ComposeIdle
    /\ BatchIdle
    /\ SilenceIdle
    /\ TakeIdle
    /\ LifeIdle
    /\ QuotaIdle
    /\ SrtIdle

QuotaFrame ==
    UNCHANGED <<builderVars, adjustVars, overlapVars, optVars, legacyVars, zoomVars, gptVars, cutVars, composeVars, batchVars, silenceVars, takeVars, lifeVars, srtVars>>

UpdatesRecorded ==
    quota_recorded.total_used + quota_recorded.total_saved + quota_recorded.cache_hits

\* __init__, line 111, and _load_quota_stats, lines 113-120: the instance reads
\* the file once, into self._quota_stats
QuotaConstruct(i) ==
    /\ ~quota_stats[i].constructed
    /\ quota_stats' = [quota_stats EXCEPT ![i] = [constructed |-> TRUE, stats |-> quota_file]]
    /\ UNCHANGED <<quota_file, quota_recorded>>
    /\ QuotaFrame

\* an update of one counter of self._quota_stats followed by _save_quota_stats
\* (lines 135-141), which writes the instance's whole dictionary over the file
QuotaUpdate(i, counter, amount) ==
    /\ quota_stats[i].constructed
    /\ UpdatesRecorded < MaxUpdates
    /\ LET mine == [quota_stats[i].stats EXCEPT ![counter] = @ + amount]
       IN  /\ quota_stats' = [quota_stats EXCEPT ![i].stats = mine]
           /\ quota_file' = mine
    /\ quota_recorded' = [quota_recorded EXCEPT ![counter] = @ + amount]
    /\ QuotaFrame

\* record_api_usage, lines 360-366
record_api_usage == \E i \in 1..MaxInstances : QuotaUpdate(i, "total_used", 1)

\* record_quota_saved, lines 368-373
record_quota_saved == \E i \in 1..MaxInstances : QuotaUpdate(i, "total_saved", 1)

\* get_cached_data on a cache hit, lines 345-348
get_cached_data == \E i \in 1..MaxInstances : QuotaUpdate(i, "cache_hits", 1)

QuotaNext ==
    \/ \E i \in 1..MaxInstances : QuotaConstruct(i)
    \/ record_api_usage
    \/ record_quota_saved
    \/ get_cached_data

SpecQuota == QuotaInit /\ [][QuotaNext]_vars

\* ======================================================================
\* SRT timestamps: _format_time_srt and _parse_srt_time
\* ======================================================================
\* Times are integers in ticks, TicksPerMilli of them in a millisecond.
\* A timestamp is kept as the decimal digits of its four fields.

\* line 355: the factor between seconds and the millisecond field
MillisPerSecond == 1000
TicksPerSecond == MillisPerSecond * TicksPerMilli

FieldChoices == {0, 59}

RECURSIVE DigitsOf(_)
\* the decimal digits of a natural number, most significant first
DigitsOf(n) == IF n < 10 THEN <<n>> ELSE DigitsOf(n \div 10) \o <<n % 10>>

RECURSIVE ZeroPad(_, _)
\* the format specifications :02d and :03d pad with zeros up to a minimal
\* width and never cut digits
ZeroPad(digits, width) ==
    IF Len(digits) >= width THEN digits ELSE ZeroPad(<<0>> \o digits, width)

RECURSIVE DigitsValue(_)
DigitsValue(digits) ==
    IF digits = <<>> THEN 0
    ELSE 10 * DigitsValue(SubSeq(digits, 1, Len(digits) - 1)) + digits[Len(digits)]

RECURSIVE PowerOfTen(_)
PowerOfTen(n) == IF n = 0 THEN 1 ELSE 10 * PowerOfTen(n - 1)

\* line 355: int(round((time_seconds - int(time_seconds)) * 1000)); round()
\* goes to the nearest integer, and to the even one from a half
Millisec(fraction_ticks) ==
    LET whole == fraction_ticks \div TicksPerMilli
        rest  == fraction_ticks % TicksPerMilli
    IN  IF 2 * rest < TicksPerMilli THEN whole
        ELSE IF 2 * rest > TicksPerMilli THEN whole + 1
        ELSE IF whole % 2 = 0 THEN whole ELSE whole + 1

\* lines 353-359
FormatTimeSrt(ticks) ==
    LET millisec == Millisec(ticks % TicksPerSecond)
        secs     == ticks \div TicksPerSecond
        seconds  == secs % 60
        minutes  == (secs \div 60) % 60
        hours    == (secs \div 60) \div 60
    IN  [hours    |-> ZeroPad(DigitsOf(hours), 2),
         minutes  |-> ZeroPad(DigitsOf(minutes), 2),
         seconds  |-> ZeroPad(DigitsOf(seconds), 2),
         millisec |-> ZeroPad(DigitsOf(millisec), 3)]

\* lines 1627-1634: the comma becomes a point and float() reads the last part,
\* so the digits after the comma are a decimal fraction of a second
ParseSrtTime(stamp) ==
    DigitsValue(stamp.hours) * 3600 * TicksPerSecond
    + DigitsValue(stamp.minutes) * 60 * TicksPerSecond
    + DigitsValue(stamp.seconds) * TicksPerSecond
    + (DigitsValue(stamp.millisec) * TicksPerSecond) \div PowerOfTen(Len(stamp.millisec))

SrtInit ==
    /\ BuilderIdle
    /\ AdjustIdle
    /\ OverlapIdle
    /\ OptIdle
    /\ LegacyIdle
    /\ ZoomIdle
    /\ GptIdle
    /\ CutIdle
    /\ ComposeIdle
    /\ BatchIdle
    /\ SilenceIdle
    /\ TakeIdle
    /\ LifeIdle
    /\ QuotaIdle
    /\ srt_time = NoSrtTime
    /\ srt_parsed = -1
    /\ \E h \in 0..MaxSrtHours, m \in FieldChoices, s \in FieldChoices, f \in 0..(TicksPerSecond - 1) :
           time_seconds = ((h * 60 + m) * 60 + s) * TicksPerSecond + f

\* transcribe_video_whisper, lines 371-376, writes the formatted time
_format_time_srt ==
    /\ srt_time = NoSrtTime
    /\ srt_time' = FormatTimeSrt(time_seconds)
    /\ UNCHANGED <<time_seconds, srt_parsed>>
    /\ UNCHANGED <<builderVars, adjustVars, overlapVars, optVars, legacyVars, zoomVars, gptVars, cutVars, composeVars, batchVars, silenceVars, takeVars, lifeVars, quotaVars>>

\* a reader of the caption file parses the time back
_parse_srt_time ==
    /\ srt_time # NoSrtTime
    /\ srt_parsed = -1
    /\ srt_parsed' = ParseSrtTime(srt_time)
    /\ UNCHANGED <<time_seconds, srt_time>>
    /\ UNCHANGED <<builderVars, adjustVars, overlapVars, optVars, legacyVars, zoomVars, gptVars, cutVars, composeVars, batchVars, silenceVars, takeVars, lifeVars, quotaVars>>

SrtNext ==
    \/ _format_time_srt
    \/ _parse_srt_time

SpecSrt == SrtInit /\ [][SrtNext]_vars

\* ======================================================================
\* Properties of CompositeVideoBuilder (checked under SpecRender)
\* ======================================================================

StepsRun == {stepLog[i].step : i \in 1..Len(stepLog)}

\* the documented order of spec section 4.2, with the encode after the effects
DocumentedOrder == <<"cuts", "zoom", "overlays", "music", "intro", "outro", "encode">>
DocPos(s) == CHOOSE i \in 1..Len(DocumentedOrder) : DocumentedOrder[i] = s

\* C1: once render() has returned or raised, no clip handle opened by the builder
\* (source, overlay media, intro/outro, music) is still open.
C1_NoHandleLeftOpen == (result # "none") => (openHandles = {})

\* C2: within one render() the steps run in the order cuts, zoom, overlays, music,
\* intro/outro; each step's input is the clip the step before it produced (the first
\* one starts from the loaded source clip), so zoom and overlays work on the post-cut
\* clip whenever the cut step produced one; the working clip between two steps is the
\* output of the step that ran last.
C2_StepsInOrder ==
    /\ \A i \in 1..Len(stepLog) :
         /\ i = 1 => stepLog[i].input = <<"base">>
         /\ i > 1 => /\ DocPos(stepLog[i - 1].step) < DocPos(stepLog[i].step)
                     /\ stepLog[i].input = stepLog[i - 1].output
         /\ (stepLog[i].step \in {"zoom", "overlays"}
               /\ \E j \in 1..(i - 1) : /\ stepLog[j].step = "cuts"
                                        /\ "cuts" \in Range(stepLog[j].output))
            => "cuts" \in Range(stepLog[i].input)
    /\ (bpc # "idle" /\ stepLog # <<>>) => clip = stepLog[Len(stepLog)].output

\* C2 witness: a render that ran all six effect steps, with a real cut, and returned
C2_Witness ==
    /\ result = "returned"
    /\ {"cuts", "zoom", "overlays", "music", "intro", "outro"} \subseteq StepsRun
    /\ \E i \in 1..Len(stepLog) : stepLog[i].step = "zoom" /\ "cuts" \in Range(stepLog[i].input)

\* C3: a render() calls the encode at most once, exactly once when it returns
\* normally, and when the encode is called every queued effect step has been run.
C3_SingleEncode ==
    /\ encodes <= 1
    /\ (result = "returned") => (encodes = 1)
    /\ (encodes >= 1) =>
         /\ (silence_cuts > 0) => ("cuts" \in StepsRun)
         /\ (zoom_keyframes > 0) => ("zoom" \in StepsRun)
         /\ (media_overlays > 0) => ("overlays" \in StepsRun)
         /\ (background_music # "none") => ("music" \in StepsRun)
         /\ (intro_clips # <<>>) => ("intro" \in StepsRun)
         /\ (outro_clips # <<>>) => ("outro" \in StepsRun)

\* C3 witness: a render with every effect queued that encoded and returned
C3_Witness ==
    /\ result = "returned"
    /\ encodes = 1
    /\ silence_cuts > 0 /\ zoom_keyframes > 0 /\ media_overlays > 0
    /\ background_music = "exists" /\ intro_clips # <<>> /\ outro_clips # <<>>

\* C4 as claimed: whenever an exception was raised anywhere inside render(), render()
\* ends by raising (never by returning the output path), after _cleanup() has run.
C4_EveryExceptionPropagates ==
    (result # "none" /\ raisedIn # {}) =>
        (result = "raised" /\ cleaned /\ loaded_clips = <<>>)

\* exceptions caught and logged inside a step: extracting one kept subclip, loading
\* one overlay, applying the background music
CaughtInStep == {"subclip", "overlay_load", "music"}

\* C4 amended: render() ends by raising exactly when an exception left a step (loading
\* the source, concatenating the kept subclips, the zoom, compositing the overlays,
\* the intro/outro concatenation, the encode); it then has run _cleanup(), the registry is empty and every registered handle is closed.
\* Exceptions caught inside a step do not keep render() from returning normally.
C4_EscapingExceptionPropagates ==
    (result # "none") =>
        /\ (result = "raised") <=> (raisedIn \ CaughtInStep # {})
        /\ cleaned
        /\ loaded_clips = <<>>
        /\ base_clip \notin openHandles
        /\ Range(intro_clips) \cap openHandles = {}
        /\ Range(outro_clips) \cap openHandles = {}

\* C4 witness: a render in which the encode raised, after cleanup
C4_Witness ==
    /\ result = "raised"
    /\ "encode" \in raisedIn
    /\ cleaned
    /\ intro_clips # <<>>

\* ======================================================================
\* Properties of adjust_timestamps_for_cuts (checked under SpecAdjust)
\* ======================================================================

\* R(t): the duration before t that no kept interval covers, counted in unit cells
RemovedBefore(t, cuts) ==
    Cardinality({u \in 0..(t - 1) :
                    ~\E i \in 1..Len(cuts) : cuts[i].start <= u /\ u < cuts[i].end})

\* C5: for an ascending, non-overlapping list of kept intervals, the call returns one
\* value per input timestamp, in input order, and each is t - R(t).
C5_AdjustedIsTMinusRemoved ==
    adjDone =>
        /\ Len(adjusted) = Len(adj_ts)
        /\ \A k \in 1..Len(adj_ts) :
              adjusted[k] = adj_ts[k] - RemovedBefore(adj_ts[k], adj_cuts)

\* C5 witness: the example of the spec, 25 -> 15, after the call
C5_Witness ==
    /\ adjDone
    /\ adj_cuts = ExampleCuts
    /\ adj_ts = <<25>>
    /\ adjusted = <<15>>

\* a timestamp inside a removed span and one inside a kept segment, in one call
C5_WitnessGap ==
    /\ adjDone
    /\ Len(adj_cuts) = 2 /\ Len(adj_ts) = 2
    /\ adj_cuts[1].end < adj_ts[1] /\ adj_ts[1] < adj_cuts[2].start
    /\ adj_cuts[2].start < adj_ts[2] /\ adj_ts[2] < adj_cuts[2].end

\* ======================================================================
\* Properties of avoid_multimedia_overlaps (checked under SpecOverlap)
\* ======================================================================

\* C7: any two distinct accepted intervals are separated by at least min_gap.
C7_MinimumGapKept ==
    avoidDone =>
        \A i, j \in 1..Len(resolved_intervals) :
            i # j =>
                \/ resolved_intervals[i].end + min_gap <= resolved_intervals[j].start
                \/ resolved_intervals[j].end + min_gap <= resolved_intervals[i].start

\* ======================================================================
\* Properties of the optimized process_video (checked under SpecOpt)
\* ======================================================================

\* C6: every stage that consumes transcript timestamps on a post-cut video gets them
\* in post-cut time.
C6_TranscriptOnVideoTimeline ==
    \A u \in transcriptUses : (u.video = "post_cut") => (u.transcript = "post_cut")

\* the artifact written by the last stage of the log that succeeded in writing one
RECURSIVE LastGoodArtifact(_)
LastGoodArtifact(log) ==
    IF log = <<>> THEN "input"
    ELSE IF log[Len(log)].outcome = "ok" /\ log[Len(log)].artifact # "none"
         THEN log[Len(log)].artifact
         ELSE LastGoodArtifact(SubSeq(log, 1, Len(log) - 1))

NoStageRaised == \A i \in 1..Len(stageLog) : stageLog[i].outcome # "raise"

\* C8: when every stage that ran either succeeded or reported failure, the run ends by
\* returning the final output path, and the working artifact is at every point the
\* output of the last successful stage (the input when none has succeeded).
C8_CompletesOnLastGoodArtifact ==
    NoStageRaised =>
        /\ (opc = "done") => (optResult = "final_output_path")
        /\ current_video_path = LastGoodArtifact(stageLog)

\* the stages the flags enable, as the spec counts them
EnabledStages ==
    {f \in {"silence", "topic_card", "transcription", "gpt_correct", "subtitle_burn",
            "zoom", "background_music"} : ~skip[f]}
    \cup (IF ~skip.broll \/ ~skip.image_generation THEN {"multimedia"} ELSE {})

\* C10: total_steps is fixed before the first stage and equals the number of enabled
\* stages; every event carries it, with current_step <= total_steps and percentage
\* <= 100, and current_step never decreases from one event to the next.
C10_ProgressWithinTotal ==
    /\ (opc # "setup") => (total_steps = Cardinality(EnabledStages))
    /\ \A i \in 1..Len(events) :
         /\ events[i].total_steps = Cardinality(EnabledStages)
         /\ events[i].current_step <= events[i].total_steps
         /\ events[i].percentage <= 100
         /\ (i > 1) => (events[i - 1].current_step <= events[i].current_step)

\* C10 witness: a completed run with all eight stages enabled and reported
C10_Witness ==
    /\ opc = "done"
    /\ optResult = "final_output_path"
    /\ total_steps = 8
    /\ Len(events) = 9
    /\ events[8].current_step = 8

\* ======================================================================
\* Properties of the legacy process_video (checked under SpecLegacy)
\* ======================================================================

TranscriptDependentStages ==
    {"gpt_correct", "highlights", "multimedia_analysis", "multimedia", "subtitle_burn"}

\* C9: when no transcript was produced in this run (transcription failed or was
\* skipped), no transcript-dependent stage (GPT correction, AI highlights, multimedia
\* analysis and insertion, subtitle burning) is executed: none of them ever runs on an
\* empty or left-over transcript file.
C9_DependentsNeedTranscriptOfThisRun ==
    \A d \in dependentsRun : (d.stage \in TranscriptDependentStages) => d.produced

\* C11: in the legacy process_video every progress event carries the total computed up
\* front from the enabled stages, has current_step <= total_steps and percentage <= 100,
\* and current_step strictly increases from one event to the next.
C11_LegacyProgressWithinTotal ==
    \A i \in 1..Len(legacy_events) :
        /\ legacy_events[i].total_steps = legacy_total_steps
        /\ legacy_events[i].current_step <= legacy_events[i].total_steps
        /\ legacy_events[i].percentage <= 100
        /\ (i > 1) => (legacy_events[i - 1].current_step < legacy_events[i].current_step)

\* C12: the optimized process_video encodes once: no stage writes an intermediate
\* encoded video file, and a run that returns the final file has produced it by a
\* builder.render() call.
C12_SingleRenderNoIntermediateFile ==
    /\ \A i \in 1..Len(stageLog) : stageLog[i].artifact = "none"
    /\ (optResult = "final_output_path") => ("render" \in builderCalls)

\* ======================================================================
\* Properties of zoom_function (checked under SpecZoom)
\* ======================================================================

\* the fraction f has the value v
FracIs(f, v) == f[1] = v * f[2]

\* the point (t, f) lies on the straight line from (t1, v1) to (t2, v2)
OnLine(f, t, t1, v1, t2, v2) ==
    (f[1] - v1 * f[2]) * (t2 - t1) = (v2 - v1) * (t - t1) * f[2]

UsesKeyframe(kf) ==
    /\ FracIs(zoomAt.zoom_factor, kf.zoom_factor)
    /\ FracIs(zoomAt.center_x, kf.center_x)
    /\ FracIs(zoomAt.center_y, kf.center_y)

InterpolatesBetween(a, b) ==
    /\ OnLine(zoomAt.zoom_factor, frame_t, a.time, a.zoom_factor, b.time, b.zoom_factor)
    /\ OnLine(zoomAt.center_x, frame_t, a.time, a.center_x, b.time, b.center_x)
    /\ OnLine(zoomAt.center_y, frame_t, a.time, a.center_y, b.time, b.center_y)

\* C13: with the keyframes sorted by time, a frame before the first keyframe gets the
\* first keyframe's zoom and centre, a frame at or after the last keyframe the last
\* keyframe's, and any other frame the linear interpolation between its two
\* neighbouring keyframes; [(0,1.0),(3,1.2)] gives 1.1 at 1.5, 1.0 at -1, 1.2 at 10.
C13_ZoomInterpolation ==
    (zpc = "done") =>
        LET kfs == sorted_keyframes
            n == Len(kfs)
        IN  /\ \A i \in 1..(n - 1) : kfs[i].time <= kfs[i + 1].time
            /\ (frame_t < kfs[1].time) => UsesKeyframe(kfs[1])
            /\ (frame_t >= kfs[n].time) => UsesKeyframe(kfs[n])
            /\ (kfs[1].time <= frame_t /\ frame_t < kfs[n].time) =>
                   /\ zoomAt.zoom_factor[2] > 0
                   /\ \E i \in 1..(n - 1) :
                        /\ kfs[i].time <= frame_t
                        /\ frame_t < kfs[i + 1].time
                        /\ InterpolatesBetween(kfs[i], kfs[i + 1])
            /\ (keyframes = ExampleKeyframes) =>
                   /\ (frame_t = 3) => FracIs(zoomAt.zoom_factor, 110)
                   /\ (frame_t = -2) => FracIs(zoomAt.zoom_factor, 100)
                   /\ (frame_t = 20) => FracIs(zoomAt.zoom_factor, 120)

\* C13 witness: a frame strictly between two keyframes of three, given out of order
\* and with different zoom factors
C13_Witness ==
    /\ zpc = "done"
    /\ Len(keyframes) = 3
    /\ keyframes # sorted_keyframes
    /\ \E i \in 1..2 :
         /\ sorted_keyframes[i].time < frame_t
         /\ frame_t < sorted_keyframes[i + 1].time
         /\ sorted_keyframes[i].zoom_factor # sorted_keyframes[i + 1].zoom_factor

\* C13 witness: the documented example at t = 1.5
C13_WitnessExample ==
    /\ zpc = "done"
    /\ keyframes = ExampleKeyframes
    /\ frame_t = 3

\* ======================================================================
\* Further properties of avoid_multimedia_overlaps (checked under SpecOverlap)
\* ======================================================================

\* the suggestions of a returned list with the start times they carry; a suggestion of
\* the second call is named by its position in the list the first call returned
Carried(suggestions) == {<<i, suggestions[i].start_time>> : i \in 1..Len(suggestions)}
CarriedAgain(suggestions) ==
    {<<suggestions[k].index, suggestions[k].start_time>> : k \in 1..Len(suggestions)}

\* C14: a second run on the lists returned by a first run returns the same suggestions
\* with the same start times: nothing is shifted further and nothing is dropped.
C14_SecondRunChangesNothing ==
    avoidAgainDone =>
        /\ Len(second_broll) = Len(final_broll)
        /\ Len(second_images) = Len(final_images)
        /\ CarriedAgain(second_broll) = Carried(final_broll)
        /\ CarriedAgain(second_images) = Carried(final_images)

Returned == Range(final_broll) \cup Range(final_images)

\* C15: every returned suggestion is one of the input suggestions, is returned at most
\* once and in the list of its own kind; for B-roll at 10 s and an image at 11 s (4 s
\* each, 60 s video) both are returned and exactly one of them has been shifted.
C15_NoDuplicateNoInvention ==
    avoidDone =>
        /\ \A k \in 1..Len(final_broll) :
             /\ final_broll[k].kind = "broll"
             /\ final_broll[k].index \in 1..Len(broll_suggestions)
        /\ \A k \in 1..Len(final_images) :
             /\ final_images[k].kind = "image"
             /\ final_images[k].index \in 1..Len(image_suggestions)
        /\ Cardinality({<<s.kind, s.index>> : s \in Returned})
               = Len(final_broll) + Len(final_images)
        /\ (broll_suggestions = ExampleBroll /\ image_suggestions = ExampleImages
            /\ video_duration = ExampleVideoDuration) =>
               /\ Len(final_broll) = 1
               /\ Len(final_images) = 1
               /\ (final_broll[1].start_time # ExampleBroll[1])
                      # (final_images[1].start_time # ExampleImages[1])

\* C15 witness: the documented scenario has been resolved
C15_Witness ==
    /\ avoidDone
    /\ broll_suggestions = ExampleBroll
    /\ image_suggestions = ExampleImages
    /\ video_duration = ExampleVideoDuration
    /\ final_images # <<>>

\* C15 witness: a call in which suggestions of both kinds were moved and one was skipped
C15_WitnessMixed ==
    /\ avoidDone
    /\ ~avoidAgainDone
    /\ Len(final_broll) + Len(final_images) < Len(broll_suggestions) + Len(image_suggestions)
    /\ \E k \in 1..Len(final_broll) :
         final_broll[k].start_time # broll_suggestions[final_broll[k].index]
    /\ \E k \in 1..Len(final_images) :
         final_images[k].start_time # image_suggestions[final_images[k].index]

\* ======================================================================
\* Properties of both process_video pipelines
\* ======================================================================

\* C16: an exception raised inside a stage is turned into a warning by process_video:
\* the run is not aborted, it goes on to the later stages and ends with the final
\* output (legacy pipeline: never "raised"; optimized pipeline: a run in which a stage
\* raised still returns the final output path).
C16_StageExceptionDoesNotAbort ==
    /\ legacyResult # "raised"
    /\ (lpc = "done") => (legacyResult = "final_output_path")
    /\ (opc = "done" /\ ~NoStageRaised) => (optResult = "final_output_path")

\* ======================================================================
\* Properties of correct_subtitles_with_gpt4o (checked under SpecGpt)
\* ======================================================================

Timing(srt) == [i \in 1..Len(srt) |-> <<srt[i].start, srt[i].end>>]

\* C17: after correct_subtitles_with_gpt4o returns, on success or failure, the
\* transcript has the same number of segments with the same start and end timestamps
\* as before the call; only the text of a segment may differ.
C17_TimingPreserved ==
    (gpc = "done") => (Timing(srt_file) = Timing(srt_before))

\* ----------------------------------------------------------------------
\* C18 (checked under SpecCut): after the silence-cut step of render() the
\* working clip is the concatenation of the kept intervals in ascending time
\* order, and its duration is calculate_total_duration_after_cuts of the kept
\* intervals.
C18_ClipIsKeptIntervalsInTimeOrder ==
    (cpc = "cut" /\ kept_cuts # <<>>) =>
        /\ working_clip = SortByStart(kept_cuts)
        /\ ClipDuration(working_clip) = calculate_total_duration_after_cuts(kept_cuts)

\* ----------------------------------------------------------------------
\* C19 (checked under SpecCompose): every overlay the builder composites ends
\* within the clip it is composited onto (start_time + duration <= its
\* duration), so the built video is never longer than the post-cut clip plus
\* intro and outro.
C19_OverlaysEndWithinClip ==
    (mpc # "overlays") =>
        /\ \A i \in 1..Len(composited) : OverlayEnd(composited[i]) <= post_cut_duration
        /\ (mpc = "built") =>
              comp_duration <= TotalDuration(intro_durations) + post_cut_duration
                               + TotalDuration(outro_durations)

\* ----------------------------------------------------------------------
\* C20 (checked under SpecCompose): when background music is queued, the music
\* under the built video spans exactly the duration of the final video, from
\* its start to its end, also when intro or outro clips are present.
C20_MusicSpansFinalVideo ==
    (mpc = "built" /\ music_track > 0 /\ music_span # <<>>) =>
        music_span = <<0, comp_duration>>

\* ----------------------------------------------------------------------
\* C21 (checked under SpecBatch): in a run of the main loop in a mode other
\* than 'full-upload', the videos are attempted once each in list order, a
\* failed video is reported, and when the loop has ended every video of the
\* list has been attempted.
C21_EveryVideoAttemptedOnce ==
    (mode # "full-upload" /\ upc \in {"loop", "done", "aborted"}) =>
        /\ Len(batch_log) <= Len(files_to_process)
        /\ \A k \in 1..Len(batch_log) :
              /\ batch_log[k].position = k
              /\ batch_log[k].video = files_to_process[k]
              /\ (batch_log[k].result # "dict") => batch_log[k].reported
        /\ upc # "aborted"
        /\ (upc = "done") => Len(batch_log) = Len(files_to_process)

\* a batch of MaxVideos videos has ended although the core pipeline raised for
\* the first video and returned None for the second
C21_Witness ==
    /\ mode = "batch-upload"
    /\ upc = "done"
    /\ Len(files_to_process) = MaxVideos
    /\ Len(batch_log) = MaxVideos
    /\ batch_log[1].core = "raise" /\ batch_log[1].reported
    /\ batch_log[2].core = "None" /\ batch_log[2].reported
    /\ batch_log[MaxVideos].result = "dict"

\* ----------------------------------------------------------------------
\* the seconds of the video within the margin of an audible second
PaddedAudible ==
    {u \in 0..(audio_duration - 1) : \E a \in audible : a - margin <= u /\ u <= a + margin}

\* C22 (checked under SpecSilence): the list analyze_silence_segments returns
\* is the kept spans of the video: ascending, non-overlapping, inside
\* [0, duration], of total length at most the duration, and covering every
\* second that is not below the threshold (with its margin, clipped to the video).
C22_ReturnsKeptSpans ==
    (sil_pc = "analyzed") =>
        /\ \A i \in 1..Len(silence_analysis) :
              /\ 0 <= silence_analysis[i].start
              /\ silence_analysis[i].start <= silence_analysis[i].end
              /\ silence_analysis[i].end <= audio_duration
        /\ \A i \in 1..(Len(silence_analysis) - 1) :
              silence_analysis[i].end <= silence_analysis[i + 1].start
        /\ calculate_total_duration_after_cuts(silence_analysis) <= audio_duration
        /\ \A u \in PaddedAudible :
              \E i \in 1..Len(silence_analysis) :
                 silence_analysis[i].start <= u /\ u + 1 <= silence_analysis[i].end

\* ----------------------------------------------------------------------
\* C23 (checked under SpecOpt; the legacy pipeline has the same finalization,
\* LegacyFinalize): process_video never moves, deletes or overwrites the input
\* file; after any run it is still at its original path.
C23_InputFileStaysInPlace ==
    inputInPlace

\* ----------------------------------------------------------------------
\* the resolved interval of the suggestion an overlay was built from
ResolvedFor(overlay) ==
    {r \in Range(resolved_intervals) : r.type = overlay.kind /\ r.index = overlay.index}

\* C24 (checked under SpecMultimedia): the overlays composited by
\* create_comprehensive_multimedia_video keep the minimum gap between every
\* B-roll overlay and every image overlay, and after overlap avoidance each
\* overlay is on screen for exactly the interval resolved for it.
C24_CompositedOverlaysKeepGap ==
    multimediaDone =>
        /\ \A b, m \in Range(multimedia_overlays) :
              (b.kind = "broll" /\ m.kind = "image") =>
                  \/ b.end + min_gap <= m.start
                  \/ m.end + min_gap <= b.start
        /\ avoidDone =>
              \A o \in Range(multimedia_overlays) :
                  \E r \in ResolvedFor(o) : r.start = o.start /\ r.end = o.end

\* ----------------------------------------------------------------------
\* C25 (checked under SpecAdjust): with an empty silence-cut list, which the
\* builder treats as "no cutting", adjust_timestamps_for_cuts returns every
\* timestamp unchanged.
C25_EmptyCutListChangesNothing ==
    (adjDone /\ adj_cuts = <<>>) => adjusted = adj_ts

\* ----------------------------------------------------------------------
\* C26 (checked under SpecTake): for any list of bad takes, overlapping and
\* nested ones included, the segments remove_bad_takes keeps are pairwise
\* disjoint, lie inside [0, duration] and contain no instant of a bad take.
C26_KeptSegmentsAvoidBadTakes ==
    takesDone =>
        /\ \A i \in 1..Len(kept_segments) :
              /\ 0 <= kept_segments[i].start
              /\ kept_segments[i].start < kept_segments[i].end
              /\ kept_segments[i].end <= take_duration
        /\ \A i, j \in 1..Len(kept_segments) :
              i < j => kept_segments[i].end <= kept_segments[j].start
        /\ \A i \in 1..Len(kept_segments), k \in 1..Len(bad_takes) :
              \/ kept_segments[i].end <= bad_takes[k].start_time
              \/ bad_takes[k].end_time <= kept_segments[i].start

\* ----------------------------------------------------------------------
\* C27 (checked under SpecLife): for any sequence of add_intro, add_outro and
\* render() calls on one builder, no render() passes an already closed intro
\* or outro clip to concatenation or encoding.
C27_NoClipUsedAfterClose ==
    \A k \in 1..Len(renders) : renders[k].closed_used = {}

\* ----------------------------------------------------------------------
\* C28 (checked under SpecLegacy): when the AI-highlights stage has written a
\* highlighted ASS file in this run, the subtitle-burning stage burns that ASS
\* file and not the plain SRT, whichever stages ran in between.
C28_HighlightedAssIsBurned ==
    (assFor # "none" /\ burnedFile # "none") => burnedFile = "ass"

\* ----------------------------------------------------------------------
\* C29 (checked under SpecQuota): for any interleaving of record_api_usage,
\* record_quota_saved and cache-hit updates made through several manager
\* instances of one channel, the persisted total_used, total_saved and
\* cache_hits are the sums of all updates recorded.
C29_NoQuotaUpdateLost ==
    quota_file = quota_recorded

\* a timestamp in the caption grammar HH:MM:SS,mmm
InCaptionGrammar(stamp) ==
    /\ Len(stamp.hours) = 2
    /\ Len(stamp.minutes) = 2 /\ DigitsValue(stamp.minutes) \in 0..59
    /\ Len(stamp.seconds) = 2 /\ DigitsValue(stamp.seconds) \in 0..59
    /\ Len(stamp.millisec) = 3 /\ DigitsValue(stamp.millisec) \in 0..999

\* ----------------------------------------------------------------------
\* C30 (checked under SpecSrt): for every non-negative time, the timestamp
\* that _format_time_srt writes is in the grammar HH:MM:SS,mmm with a
\* three-digit millisecond field in 000..999, and _parse_srt_time of it is
\* less than one millisecond away from the time.
C30_SrtTimeRoundTrip ==
    /\ srt_time # NoSrtTime => InCaptionGrammar(srt_time)
    /\ srt_parsed # -1 =>
           /\ srt_parsed - time_seconds < TicksPerMilli
           /\ time_seconds - srt_parsed < TicksPerMilli

====
